---- MODULE Spec2Model ----
(***************************************************************************)
(* Model of the asynchronous job orchestrator of silence-remover-api       *)
(* (src/app.py), of the silence-removal pipeline it drives                 *)
(* (src/remove_silence.py) and of the input checks of the cue generator    *)
(* (src/create_srt.py).                                                    *)
(*                                                                         *)
(* Threads: one worker per job (threading.Thread, app.py 479-484 and       *)
(* 717-722) and a fixed number of request threads ("clients") that run the *)
(* HTTP handlers.  Every `with jobs_lock:` block is one atomic action; the *)
(* code that runs outside the lock (downloads, engine runs, file system    *)
(* calls, reads through a record reference) is a separate action, so that  *)
(* other threads interleave with it.                                       *)
(*                                                                         *)
(* A job record is a Python dict: it is modelled as a function from the    *)
(* keys it holds to their values, so "key in dict" is "k \in DOMAIN r"     *)
(* and dict.update is a left-biased merge.  The fields video_url,          *)
(* noise_level and min_duration are never read again by the code modelled  *)
(* here and are left out of the records.                                   *)
(***************************************************************************)
EXTENDS Integers, Sequences, FiniteSets, TLC

(* ------------------------------ bounds -------------------------------- *)

\* Number of submissions accepted in one run of the orchestrator model.
NJobs == 2

\* Number of request threads serving HTTP handlers concurrently.
NClients == 2

\* The clock stops advancing at this time (seconds).
MaxTime == 901

(* -------------------------- program constants -------------------------- *)

\* app.py 349: `if current_time - completed_at > 900`
RetentionSeconds == 900

\* app.py 341: `max_jobs = 50`
max_jobs == 50

\* app.py 292: `max_stderr_size = 2048`
max_stderr_size == 2048

\* app.py 323: `stderr_output[:200]`
ErrorChars == 200

\* The clock of the orchestrator model advances in steps of this many
\* seconds: one step exceeds the retention window.
TimeStep == 901

NONE == "None"

JobIds == 1..NJobs
Clients == 1..NClients

TerminalStatuses == {"completed", "error", "no_silence"}

JOB_TYPES == {"remove-silence", "burn-captions"}

(* ------------------------------ helpers -------------------------------- *)

Range(s) == {s[i] : i \in DOMAIN s}

\* An update that overwrites the keys the dict has and adds none.
UpdateKeepsKeys(job, upd) ==
    [k \in DOMAIN job |-> IF k \in DOMAIN upd THEN upd[k] ELSE job[k]]

\* dict.update(upd): the keys of upd overwrite, the other keys stay.
Update(job, upd) == upd @@ job

\* job.get(key, default)
Get(job, key, default) == IF key \in DOMAIN job THEN job[key] ELSE default

\* The sequence s without the elements of the set S, order kept.
RECURSIVE Without(_, _)
Without(s, S) ==
    IF s = <<>> THEN <<>>
    ELSE IF Head(s) \in S THEN Without(Tail(s), S)
         ELSE <<Head(s)>> \o Without(Tail(s), S)

\* The function f restricted to the domain D.
Restrict(f, D) == [x \in D |-> f[x]]

\* Scratch file names: os.path.join(temp_dir, f"{job_id}_input.mp4") and
\* the like; a path is the pair of the job and the kind of file.
\* A message is modelled by its fixed text and the number of characters of
\* engine output that follow the text.
Text(t) == [text |-> t, diagnostic |-> 0]

\* The length of s[:k] for a string of n characters.
Truncate(n, k) == IF n < k THEN n ELSE k

\* The number of characters of a list of lines, given by their lengths.
RECURSIVE Total(_)
Total(lines) == IF lines = <<>> THEN 0 ELSE Head(lines) + Total(Tail(lines))

\* process_burn_captions 293-296: the lines kept of the engine's stderr
\* once every line has been appended: after each append, lines are popped
\* from the front while more than max_stderr_size characters are held.
RECURSIVE PopFront(_)
PopFront(buffer) ==
    IF Total(buffer) > max_stderr_size THEN PopFront(Tail(buffer)) ELSE buffer

RECURSIVE StderrBuffer(_, _)
StderrBuffer(lines, buffer) ==
    IF lines = <<>> THEN buffer
    ELSE StderrBuffer(Tail(lines), PopFront(Append(buffer, Head(lines))))

input_path(j) == <<j, "input">>
srt_path(j) == <<j, "subs">>
output_path(j) == <<j, "output">>

(* --------------------- remove_silence.py: planner ---------------------- *)

\* The loop of create_filter_complex (lines 81-87): cur is current_time,
\* segs the segments appended so far.
RECURSIVE WalkSilences(_, _, _)
WalkSilences(silences, cur, segs) ==
    IF silences = <<>> THEN [current_time |-> cur, segments |-> segs]
    ELSE LET silence == Head(silences)
             segs2 == IF silence.start > cur
                      THEN Append(segs, [start |-> cur, end |-> silence.start])
                      ELSE segs
         IN WalkSilences(Tail(silences), silence.end, segs2)

\* A planner that forgets the part after the last silence.
KeepSegmentsNoTail(silences, video_duration) ==
    WalkSilences(silences, 0, <<>>).segments

\* Lines 78-93: the segments to keep.
KeepSegments(silences, video_duration) ==
    LET w == WalkSilences(silences, 0, <<>>)
    IN IF w.current_time < video_duration
       THEN Append(w.segments, [start |-> w.current_time, end |-> video_duration])
       ELSE w.segments

\* A filter graph whose concatenation takes all video inputs first.
FilterPartsVideoFirst(segments) ==
    LET n == Len(segments)
        trims == [k \in 1..(2 * n) |->
                    LET i == (k + 1) \div 2
                        seg == segments[i]
                    IN IF k % 2 = 1
                       THEN [src |-> "0:v", filter |-> "trim", start |-> seg.start,
                             end |-> seg.end, reset |-> "setpts=PTS-STARTPTS",
                             label |-> <<"v", i - 1>>]
                       ELSE [src |-> "0:a", filter |-> "atrim", start |-> seg.start,
                             end |-> seg.end, reset |-> "asetpts=PTS-STARTPTS",
                             label |-> <<"a", i - 1>>]]
        inputs == [k \in 1..(2 * n) |->
                    IF k <= n THEN <<"v", k - 1>> ELSE <<"a", k - n - 1>>]
    IN Append(trims, [filter |-> "concat", inputs |-> inputs, n |-> n])

\* Lines 104-117: the parts of the filter graph, in the order they are
\* joined by '; '.
FilterParts(segments) ==
    LET n == Len(segments)
        trims == [k \in 1..(2 * n) |->
                    LET i == (k + 1) \div 2
                        seg == segments[i]
                    IN IF k % 2 = 1
                       THEN [src |-> "0:v", filter |-> "trim", start |-> seg.start,
                             end |-> seg.end, reset |-> "setpts=PTS-STARTPTS",
                             label |-> <<"v", i - 1>>]
                       ELSE [src |-> "0:a", filter |-> "atrim", start |-> seg.start,
                             end |-> seg.end, reset |-> "asetpts=PTS-STARTPTS",
                             label |-> <<"a", i - 1>>]]
        inputs == [k \in 1..(2 * n) |->
                    IF k % 2 = 1 THEN <<"v", (k + 1) \div 2 - 1>>
                    ELSE <<"a", (k + 1) \div 2 - 1>>]
    IN Append(trims, [filter |-> "concat", inputs |-> inputs, n |-> n])

\* A planner that builds a filter graph also when no segment is kept.
create_filter_complex_of_nothing(silences, video_duration) ==
    FilterParts(KeepSegments(silences, video_duration))

\* create_filter_complex: None when there is no segment to keep.
create_filter_complex(silences, video_duration) ==
    LET segments == KeepSegments(silences, video_duration)
    IN IF segments = <<>> THEN NONE ELSE FilterParts(segments)

\* What detect_silence can report in the orchestrator model: no silence,
\* a silence from the start, a silence inside the video.
SilenceInputs ==
    { <<>>,
      <<[start |-> 0, end |-> 2]>>,
      <<[start |-> 1, end |-> 2]>> }

(* ------------------- create_srt.py: input validation ------------------- *)

\* A word is a dict (a function from its keys) or something else, such as a
\* JSON number: isinstance(word, dict).
NotADict == [not_a_dict |-> TRUE]

IsDict(w) == w /= NotADict

\* A slice that is one word longer: words[i:i+k+1].
ChunkOneMore(words, i, k) ==
    SubSeq(words, i, IF i + k < Len(words) THEN i + k ELSE Len(words))

\* The words of the chunk that starts at index i (1-based), words[i:i+k].
Chunk(words, i, k) ==
    SubSeq(words, i, IF i + k - 1 < Len(words) THEN i + k - 1 ELSE Len(words))

\* create_srt_from_words, lines 16-40: the exception the call ends with, or
\* NONE.  The file is opened (line 26) before the chunks are checked.
\* Lines 36-44 for one chunk: the exception it ends with, or NONE.  Only the
\* first and the last word of the chunk are looked at before the texts are
\* joined with word.get('text', '').
ChunkRaise(chunk) ==
    LET first == chunk[1]
        last == chunk[Len(chunk)]
    IN IF ~IsDict(first) THEN "TypeError"
       ELSE IF "start" \notin DOMAIN first THEN "ValueError"
       ELSE IF ~IsDict(last) THEN "TypeError"
       ELSE IF "end" \notin DOMAIN last \/ "text" \notin DOMAIN first
            THEN "ValueError"
       ELSE IF \E x \in 1..Len(chunk) : ~IsDict(chunk[x])
            THEN "AttributeError"
       ELSE NONE

RECURSIVE SrtChunksRaise(_, _, _)
SrtChunksRaise(words, i, k) ==
    IF i > Len(words) THEN NONE
    ELSE IF ChunkRaise(Chunk(words, i, k)) /= NONE
    THEN ChunkRaise(Chunk(words, i, k))
    ELSE SrtChunksRaise(words, i + k, k)

create_srt_from_words_raises(words, words_per_line) ==
    IF words = <<>> THEN "ValueError"
    ELSE SrtChunksRaise(words, 1, words_per_line)

\* create_word_by_word_srt, lines 63-76.
\* Lines 72-76 for one word: the exception it ends with, or NONE.
WordRaise(word) ==
    IF ~IsDict(word) THEN "TypeError"
    ELSE IF {"start", "end", "text"} \ DOMAIN word /= {} THEN "ValueError"
    ELSE NONE

RECURSIVE WordByWordRaise(_, _)
WordByWordRaise(words, i) ==
    IF i > Len(words) THEN NONE
    ELSE IF WordRaise(words[i]) /= NONE THEN WordRaise(words[i])
    ELSE WordByWordRaise(words, i + 1)

create_word_by_word_srt_raises(words) ==
    IF words = <<>> THEN "ValueError"
    ELSE WordByWordRaise(words, 1)

W(s, e, t) == [start |-> s, end |-> e, text |-> t]

CaptionStyles == {"grouped", "word-by-word"}

\* words_per_line of the requests of the orchestrator model.
WordsPerLine == 3

(* ----------------- create_srt.py: timestamps and cues ------------------ *)

\* Times are decimal numbers with four decimals, written as integers in
\* units of 1/Scale of a second: 1.4995 is 14995.
Scale == 10000

\* The significant bits of a Python float (IEEE 754 binary64).
Precision == 53

\* The binary digits after the point of a number are kept in groups of 17,
\* each group a natural below Base, the first group first; Places are the
\* positions of the digits, 1 the first after the point.
Base == 2^17

Groups == 1..5

Places == 1..85

\* The digit at place p.
Bit(frac, p) == (frac[((p - 1) \div 17) + 1] \div 2^(16 - ((p - 1) % 17))) % 2

\* The length of the binary notation of n (0 for n = 0), n < 2^30.
BitLen(n) == CHOOSE b \in 0..30 : n < 2^b /\ (b > 0 => n >= 2^(b - 1))

\* The digits of r / Scale (r < Scale) from group i on, and the remainder
\* that is left after the last group.
RECURSIVE FracGroups(_, _)
FracGroups(r, i) ==
    IF i \notin Groups THEN [groups |-> <<>>, rem |-> r]
    ELSE LET rest == FracGroups((r * Base) % Scale, i + 1)
         IN [groups |-> <<(r * Base) \div Scale>> \o rest.groups, rem |-> rest.rem]

\* 2^-p added to the digits, p a place: the digits and the carry into the
\* integer part.
RECURSIVE AddAt(_, _, _)
AddAt(frac, i, amount) ==
    LET t == frac[i] + amount
    IN IF t < Base THEN [frac |-> [frac EXCEPT ![i] = t], carry |-> 0]
       ELSE IF i = 1 THEN [frac |-> [frac EXCEPT ![i] = t - Base], carry |-> 1]
       ELSE AddAt([frac EXCEPT ![i] = t - Base], i - 1, 1)

\* The number int + frac (+ something below the last place if sticky),
\* rounded to Precision significant bits, to nearest, ties to even.
Round(int, frac, sticky) ==
    LET ones == {p \in Places : Bit(frac, p) = 1}
        first == CHOOSE p \in ones : \A o \in ones : p <= o
        \* the last place kept
        q == IF int > 0 THEN Precision - BitLen(int) ELSE first + Precision - 1
        i == ((q - 1) \div 17) + 1
        unit == 2^(16 - ((q - 1) % 17))
        kept == [g \in Groups |->
                    IF g < i THEN frac[g]
                    ELSE IF g = i THEN frac[g] - (frac[g] % unit)
                    ELSE 0]
        odd == Bit(frac, q) = 1
        up == /\ Bit(frac, q + 1) = 1
              /\ \/ odd
                 \/ sticky
                 \/ \E p \in Places : p > q + 1 /\ Bit(frac, p) = 1
        inc == AddAt(kept, i, unit)
    IN IF (int = 0 /\ ones = {}) \/ q + 1 \notin Places
       THEN [int |-> int, frac |-> frac]
       ELSE IF up THEN [int |-> int + inc.carry, frac |-> inc.frac]
       ELSE [int |-> int, frac |-> kept]

\* The float a decimal number of n / Scale seconds is read as (the JSON
\* decoder, then float() at create_srt.py 42-43 and 78-79): int is the
\* integer part, frac the binary digits after the point.
Float(n) ==
    LET f == FracGroups(n % Scale, 1)
    IN Round(n \div Scale, f.groups, f.rem > 0)

\* frac * m for a small natural m, exactly, from group i on: the digits
\* and the carry into the place before.
RECURSIVE TimesFrom(_, _, _)
TimesFrom(frac, m, i) ==
    IF i \notin Groups THEN [groups |-> <<>>, carry |-> 0]
    ELSE LET rest == TimesFrom(frac, m, i + 1)
             t == frac[i] * m + rest.carry
         IN [groups |-> <<t % Base>> \o rest.groups, carry |-> t \div Base]

\* The float product x * m of a float 0 <= x < 1 given by its digits and a
\* small natural m: the exact product, rounded.
FloatTimes(frac, m) ==
    LET p == TimesFrom(frac, m, 1)
    IN Round(p.carry, p.groups, FALSE)

\* The decimal digits of n, padded with zeros to at least width characters:
\* the format specs 02d and 03d.
RECURSIVE Digits(_, _)
Digits(n, width) ==
    LET d == <<"0", "1", "2", "3", "4", "5", "6", "7", "8", "9">>[(n % 10) + 1]
    IN IF n < 10 /\ width <= 1 THEN <<d>>
       ELSE Append(Digits(n \div 10, width - 1), d)

\* The string HH:MM:SS,mmm of line 10, as its sequence of characters.
Stamp(hours, minutes, secs, millis) ==
    Digits(hours, 2) \o <<":">> \o Digits(minutes, 2) \o <<":">>
        \o Digits(secs, 2) \o <<",">> \o Digits(millis, 3)

\* format_timestamp (lines 4-10) of a float seconds >= 0.  seconds // 3600,
\* seconds % 3600, seconds % 60 and seconds % 1 are exact in float
\* arithmetic; the product by 1000 is rounded.
format_timestamp(seconds) ==
    LET hours == seconds.int \div 3600
        minutes == (seconds.int % 3600) \div 60
        secs == seconds.int % 60
        millis == FloatTimes(seconds.frac, 1000).int
    IN Stamp(hours, minutes, secs, millis)

\* str.upper() on the texts of the model.
Upper(t) ==
    IF t = "a" THEN "A" ELSE IF t = "b" THEN "B" ELSE IF t = "c" THEN "C"
    ELSE IF t = "d" THEN "D" ELSE IF t = "e" THEN "E" ELSE IF t = "f" THEN "F"
    ELSE t

\* ' '.join(texts), as the sequence of its pieces.
RECURSIVE Join(_)
Join(texts) ==
    IF Len(texts) <= 1 THEN texts
    ELSE <<texts[1], " ">> \o Join(Tail(texts))

\* A generator that ignores all_caps.
CapsNever(pieces, all_caps) == pieces

\* text.upper() if all_caps (lines 47-48, 83-84).
Caps(pieces, all_caps) ==
    IF all_caps THEN [i \in 1..Len(pieces) |-> Upper(pieces[i])] ELSE pieces

\* Lines 42-52: the cue written for a chunk that passed the checks.
GroupedCue(subtitle_index, chunk, all_caps) ==
    [index |-> subtitle_index,
     start |-> format_timestamp(Float(chunk[1].start)),
     end |-> format_timestamp(Float(chunk[Len(chunk)].end)),
     text |-> Caps(Join([i \in 1..Len(chunk) |-> Get(chunk[i], "text", "")]),
                   all_caps)]

\* The loop of create_srt_from_words (lines 29-54) from index i on (1-based):
\* file is the cues written so far.
RECURSIVE SrtLoop(_, _, _, _, _, _)
SrtLoop(words, i, k, all_caps, subtitle_index, file) ==
    IF i > Len(words)
    THEN [raised |-> NONE, file |-> file, returned |-> subtitle_index - 1]
    ELSE LET chunk == Chunk(words, i, k)
         IN IF ChunkRaise(chunk) /= NONE
            THEN [raised |-> ChunkRaise(chunk), file |-> file, returned |-> NONE]
            ELSE SrtLoop(words, i + k, k, all_caps, subtitle_index + 1,
                         Append(file, GroupedCue(subtitle_index, chunk, all_caps)))

\* create_srt_from_words (lines 12-57) on a list of words: the exception it
\* ends with, the cues in the file, the value returned.  range() raises on
\* a step of 0 and is empty for a negative step.
create_srt_from_words(words, words_per_line, all_caps) ==
    IF words = <<>> THEN [raised |-> "ValueError", file |-> NONE, returned |-> NONE]
    ELSE IF words_per_line = 0
    THEN [raised |-> "ValueError", file |-> <<>>, returned |-> NONE]
    ELSE IF words_per_line < 0
    THEN [raised |-> NONE, file |-> <<>>, returned |-> 0]
    ELSE SrtLoop(words, 1, words_per_line, all_caps, 1, <<>>)

\* Lines 78-88: the cue written for the i-th word.
WordCue(i, word, all_caps) ==
    [index |-> i,
     start |-> format_timestamp(Float(word.start)),
     end |-> format_timestamp(Float(word.end)),
     text |-> Caps(<<word.text>>, all_caps)]

\* The loop of create_word_by_word_srt (lines 70-88).
RECURSIVE WordLoop(_, _, _, _)
WordLoop(words, i, all_caps, file) ==
    IF i > Len(words)
    THEN [raised |-> NONE, file |-> file, returned |-> Len(words)]
    ELSE IF WordRaise(words[i]) /= NONE
    THEN [raised |-> WordRaise(words[i]), file |-> file, returned |-> NONE]
    ELSE WordLoop(words, i + 1, all_caps, Append(file, WordCue(i, words[i], all_caps)))

\* create_word_by_word_srt (lines 59-91).
create_word_by_word_srt(words, all_caps) ==
    IF words = <<>> THEN [raised |-> "ValueError", file |-> NONE, returned |-> NONE]
    ELSE WordLoop(words, 1, all_caps, <<>>)

(* ------------------------------- state --------------------------------- *)

VARIABLES
    processing_jobs,  \* app.py 67: the job table, job id -> record
    order,            \* the insertion order of the keys of processing_jobs
    detached,         \* records deleted from the table, still reachable
                      \* through the references handlers hold
    files,            \* the scratch files that exist in /tmp/videos
    now,              \* time.time()
    next_id,          \* the next job id uuid.uuid4() hands out
    args,             \* the arguments each worker thread was created with
    worker,           \* each worker thread: position and local variables
    events,           \* per job: the pipeline stages its worker entered and
                      \* the deliveries of its output that were closed
    client,           \* each request thread: position and local variables
    limits,           \* the size of the run: how many jobs are submitted, how
                      \* many request threads serve, how far the clock goes,
                      \* and whether the environment of the workers shows all
                      \* its variants or few (a run of several jobs)
    response,         \* the response a handler has just returned, if the last
                      \* step was the return of a handler
    call,             \* a call of a library function on its own (planner,
                      \* cue generators, timestamp format): the function,
                      \* its arguments and, once it has run, its outcome
    lock,             \* app.py 69: the thread that holds jobs_lock, when the
                      \* acquisitions and releases are followed one by one
    thread            \* the threads whose acquisitions and releases are
                      \* followed: the function each runs and its position

vars == <<processing_jobs, order, detached, files, now, next_id, args, worker,
          events, client, limits, response, call, lock, thread>>

Issued == 1..(next_id - 1)

\* The runs explored: several jobs served by one request thread, in an
\* environment of few variants, and one job served by several request
\* threads, in an environment of all variants.
Runs ==
    { [jobs |-> NJobs, clients |-> 1, horizon |-> MaxTime, inputs |-> "few"],
      [jobs |-> 1, clients |-> NClients, horizon |-> MaxTime, inputs |-> "all"] }

\* No handler has just returned.
NoResponse == [op |-> NONE]

\* No library function is called on its own.
NoCall == [fn |-> NONE]

\* No thread is followed through its acquisitions and releases: each block
\* under the lock is one step.
NoThreads == <<>>

\* A request thread between two requests.  route is the job type of the
\* URL the request came in on, job_id the id of the request, found whether
\* the lookup in the table gave a record, current_time the local variable of
\* cleanup_old_jobs, after_delivery whether the request started after a
\* delivery of the same job's output was closed, head the response dict a
\* status handler has built so far.
IdleClient ==
    [pc |-> "idle", op |-> NONE, route |-> NONE, job_id |-> 0, found |-> FALSE,
     current_time |-> 0, after_delivery |-> FALSE, delivered |-> FALSE,
     head |-> <<>>]

\* The state after the module is loaded (app.py 67-69), for a run of one of
\* the given sizes.
InitIn(runs) ==
    /\ processing_jobs = <<>>
    /\ order = <<>>
    /\ detached = <<>>
    /\ files = {}
    /\ now = 0
    /\ next_id = 1
    /\ args = <<>>
    /\ worker = <<>>
    /\ events = <<>>
    /\ client = [c \in Clients |-> IdleClient]
    /\ response = NoResponse
    /\ call = NoCall
    /\ lock = NONE
    /\ thread = NoThreads
    /\ limits \in runs

Init == InitIn(Runs)

\* The record a reference obtained from the table points to: the dict
\* object outlives its deletion from the table.
Deref(j) == IF j \in DOMAIN processing_jobs THEN processing_jobs[j] ELSE detached[j]

\* An update that is applied to every record of the table.
UpdateEveryRecord(j, upd) ==
    [k \in DOMAIN processing_jobs |-> Update(processing_jobs[k], upd)]

\* processing_jobs[job_id].update(upd) under `if job_id in processing_jobs`.
UpdateIfPresent(j, upd) ==
    IF j \in DOMAIN processing_jobs
    THEN [processing_jobs EXCEPT ![j] = Update(@, upd)]
    ELSE processing_jobs

\* The variants of the environment in the run: whether a failed download or
\* a failed run of the engine leaves a partial file, and whether the
\* thin-space pass raises.
Leftovers == IF limits.inputs = "all" THEN BOOLEAN ELSE {FALSE}

\* A step that is not the return of a handler.
Quiet ==
    /\ response' = NoResponse
    /\ call' = call
    /\ UNCHANGED <<lock, thread>>

NewWorker ==
    [pc |-> "begin", result |-> <<>>, exc |-> NONE, returncode |-> 0,
     stderr_output |-> 0, silences |-> <<>>, video_duration |-> 0]

\* A worker thread whose function has returned: its local variables and
\* its arguments are gone.
DoneWorker == [NewWorker EXCEPT !.pc = "done"]

DoneArgs(a) == [job_type |-> a.job_type]

At(j, pc) == j \in DOMAIN worker /\ worker[j].pc = pc

IsType(j, t) == j \in DOMAIN args /\ args[j].job_type = t

Goto(j, pc) == worker' = [worker EXCEPT ![j].pc = pc]

Tick ==
    /\ Quiet
    /\ now + TimeStep <= limits.horizon
    /\ now' = now + TimeStep
    /\ UNCHANGED <<processing_jobs, order, detached, files, next_id, args, worker,
                   events, client, limits>>

(* ------------------ app.py: the two worker functions ------------------- *)

\* A worker that starts its work without storing the status processing.
WorkerBeginKeepsStatus(j) ==
    /\ Quiet
    /\ At(j, "begin")
    /\ processing_jobs' = UpdateIfPresent(j, [progress |-> "Downloading video..."])
    /\ Goto(j, "progress")
    /\ UNCHANGED <<order, detached, files, now, next_id, args, events, client, limits>>

\* process_silence_removal 94-108 and process_burn_captions 164-178.
WorkerBegin(j) ==
    /\ Quiet
    /\ At(j, "begin")
    /\ IF j \in DOMAIN processing_jobs
       THEN /\ processing_jobs' =
                  [processing_jobs EXCEPT ![j] =
                      Update(@, [status |-> "processing",
                                 progress |-> "Downloading video..."])]
            /\ order' = order
       ELSE /\ processing_jobs' =
                  (j :> [status |-> "processing", created_at |-> now,
                         progress |-> "Downloading video...",
                         job_type |-> args[j].job_type]) @@ processing_jobs
            /\ order' = Append(order, j)
    /\ Goto(j, "progress")
    /\ UNCHANGED <<detached, files, now, next_id, args, events, client, limits>>

\* process_silence_removal 114-116.
SilenceProgress(j) ==
    /\ Quiet
    /\ At(j, "progress") /\ IsType(j, "remove-silence")
    /\ processing_jobs' = UpdateIfPresent(j, [progress |-> "Processing video..."])
    /\ Goto(j, "run")
    /\ UNCHANGED <<order, detached, files, now, next_id, args, events, client, limits>>

\* The dict remove_silence_from_url returns after the engine ran
\* (lines 178-197).
TranscodeResult(j, silences, returncode) ==
    IF returncode = 0
    THEN [status |-> "success", output_path |-> output_path(j),
          silence_removed |-> Len(silences)]
    ELSE [status |-> "error", message |-> "FFmpeg processing failed",
          error |-> Total(<<1000, 1000, 100>>)]

\* A pipeline that plans and transcodes also when no silence was detected.
PipelineAlwaysTranscodes(j, silences, video_duration, returncode, partial) ==
    IF create_filter_complex(silences, video_duration) = NONE
    THEN [result |-> [status |-> "error", message |-> "Could not create filter"],
          stages |-> {"plan"}, output |-> FALSE]
    ELSE [result |-> TranscodeResult(j, silences, returncode),
          stages |-> (IF silences = <<>> THEN {"no silences"} ELSE {})
                        \cup {"plan", "transcode"},
          output |-> returncode = 0 \/ partial]

\* remove_silence_from_url 136-197 once the download is done: what the call
\* returns, the stages it enters and whether it writes an output file, for
\* the silences and the duration that the engine reports and the exit code
\* of the transcode.
Pipeline(j, silences, video_duration, returncode, partial) ==
    IF silences = <<>>
    THEN [result |-> [status |-> "no_silence", output_path |-> input_path(j),
                      message |-> "No silence found"],
          stages |-> {"no silences"}, output |-> FALSE]
    ELSE IF create_filter_complex(silences, video_duration) = NONE
    THEN [result |-> [status |-> "error", message |-> "Could not create filter"],
          stages |-> {"plan"}, output |-> FALSE]
    ELSE [result |-> TranscodeResult(j, silences, returncode),
          stages |-> {"plan", "transcode"},
          output |-> returncode = 0 \/ partial]

\* process_silence_removal 119-123: the call of remove_silence_from_url
\* (remove_silence.py 121-207), outside the lock.  os.makedirs (126) is
\* outside the try and its failure reaches the handler of
\* process_silence_removal; every other failure (download, engine not
\* runnable) is caught at 199 and returned as an error result.  The finally
\* clause removes the input file on every path.  A failed transcode may
\* leave a partial output file behind.
SilenceRun(j) ==
    /\ Quiet
    /\ At(j, "run") /\ IsType(j, "remove-silence")
    /\ \/ /\ worker' = [worker EXCEPT ![j].pc = "except",
                                      ![j].exc = "makedirs failed"]
          /\ UNCHANGED <<files, events>>
       \/ /\ worker' = [worker EXCEPT ![j].pc = "update",
                           ![j].result = [status |-> "error",
                                          message |-> "download failed"]]
          /\ UNCHANGED <<files, events>>
       \/ \E silences \in SilenceInputs, video_duration \in {2, 3},
             returncode \in {0, 1}, partial \in Leftovers :
            LET p == Pipeline(j, silences, video_duration, returncode, partial)
            IN /\ worker' = [worker EXCEPT ![j].pc = "update",
                                           ![j].result = p.result,
                                           ![j].silences = silences,
                                           ![j].video_duration =
                                               IF silences = <<>> THEN 0
                                               ELSE video_duration]
               /\ events' = [events EXCEPT ![j] = p.stages]
               /\ files' = IF p.output THEN files \cup {output_path(j)} ELSE files
    /\ UNCHANGED <<processing_jobs, order, detached, now, next_id, args, client, limits>>

\* A worker that copies the output_path of a no_silence result into the
\* record.
SilenceUpdateCopiesPath(j) ==
    /\ Quiet
    /\ At(j, "update") /\ IsType(j, "remove-silence")
    /\ LET result == worker[j].result
       IN processing_jobs' =
            IF result.status = "success"
            THEN UpdateIfPresent(j, [status |-> "completed",
                                     output_path |-> result.output_path,
                                     silence_removed |-> Get(result, "silence_removed", 0),
                                     completed_at |-> now])
            ELSE IF result.status = "no_silence"
            THEN UpdateIfPresent(j, [status |-> "no_silence",
                                     output_path |-> result.output_path,
                                     message |-> Get(result, "message", "No silence found"),
                                     completed_at |-> now])
            ELSE UpdateIfPresent(j, [status |-> "error",
                                     error |-> Text(Get(result, "message", "Unknown error")),
                                     completed_at |-> now])
    /\ worker' = [worker EXCEPT ![j] = DoneWorker]
    /\ args' = [args EXCEPT ![j] = DoneArgs(@)]
    /\ UNCHANGED <<order, detached, files, now, next_id, events, client, limits>>

\* process_silence_removal 126-149.
SilenceUpdate(j) ==
    /\ Quiet
    /\ At(j, "update") /\ IsType(j, "remove-silence")
    /\ LET result == worker[j].result
       IN processing_jobs' =
            IF result.status = "success"
            THEN UpdateIfPresent(j, [status |-> "completed",
                                     output_path |-> result.output_path,
                                     silence_removed |-> Get(result, "silence_removed", 0),
                                     completed_at |-> now])
            ELSE IF result.status = "no_silence"
            THEN UpdateIfPresent(j, [status |-> "no_silence",
                                     message |-> Get(result, "message", "No silence found"),
                                     completed_at |-> now])
            ELSE UpdateIfPresent(j, [status |-> "error",
                                     error |-> Text(Get(result, "message", "Unknown error")),
                                     completed_at |-> now])
    /\ worker' = [worker EXCEPT ![j] = DoneWorker]
    /\ args' = [args EXCEPT ![j] = DoneArgs(@)]
    /\ UNCHANGED <<order, detached, files, now, next_id, events, client, limits>>

\* A worker whose exception handler stores nothing in the record.
WorkerExceptSilent(j) ==
    /\ Quiet
    /\ At(j, "except")
    /\ worker' = [worker EXCEPT ![j] = DoneWorker]
    /\ args' = [args EXCEPT ![j] = DoneArgs(@)]
    /\ UNCHANGED <<processing_jobs, order, detached, files, now, next_id, events,
                   client, limits>>

\* process_silence_removal 150-158 and process_burn_captions 326-336.
WorkerExcept(j) ==
    /\ Quiet
    /\ At(j, "except")
    /\ processing_jobs' = UpdateIfPresent(j, [status |-> "error",
                                              error |-> Text(worker[j].exc),
                                              completed_at |-> now])
    /\ worker' = [worker EXCEPT ![j] = DoneWorker]
    /\ args' = [args EXCEPT ![j] = DoneArgs(@)]
    /\ UNCHANGED <<order, detached, files, now, next_id, events, client, limits>>

\* process_burn_captions 184-192.  The sanitising loop rewrites the key
\* 'word' of the words that hold one; the words of the model hold none.
BurnProgress(j) ==
    /\ Quiet
    /\ At(j, "progress") /\ IsType(j, "burn-captions")
    /\ processing_jobs' = UpdateIfPresent(j, [progress |-> "Creating SRT file..."])
    /\ Goto(j, "download")
    /\ UNCHANGED <<order, detached, files, now, next_id, args, events, client, limits>>

\* process_burn_captions 194-213.  A failed download raises with a message
\* that tells a 404 from the other failures; what was written of the input
\* file stays on disk.
BurnDownload(j) ==
    /\ Quiet
    /\ At(j, "download") /\ IsType(j, "burn-captions")
    /\ \/ /\ worker' = [worker EXCEPT ![j].pc = "except",
                                      ![j].exc = "Video URL returned 404"]
          /\ files' = files
       \/ \E partial \in Leftovers :
            /\ worker' = [worker EXCEPT ![j].pc = "except",
                             ![j].exc = "Failed to download video from URL"]
            /\ files' = IF partial THEN files \cup {input_path(j)} ELSE files
       \/ /\ Goto(j, "progress2")
          /\ files' = files \cup {input_path(j)}
    /\ UNCHANGED <<processing_jobs, order, detached, now, next_id, args, events,
                   client, limits>>

\* process_burn_captions 216-218.
BurnProgress2(j) ==
    /\ Quiet
    /\ At(j, "progress2") /\ IsType(j, "burn-captions")
    /\ processing_jobs' = UpdateIfPresent(j, [progress |-> "Burning captions..."])
    /\ Goto(j, "srt")
    /\ UNCHANGED <<order, detached, files, now, next_id, args, events, client, limits>>

\* The exception the cue generator ends with for the job's arguments
\* (process_burn_captions 222-225), or NONE.
SrtRaises(a) ==
    IF a.caption_style = "word-by-word"
    THEN create_word_by_word_srt_raises(a.words)
    ELSE create_srt_from_words_raises(a.words, a.words_per_line)

\* process_burn_captions 221-303, outside the lock: the cue file, the
\* thin-space pass, the style string, the engine run and the removal of the
\* input and cue files.  The generators open the file before they check the
\* words (create_srt.py 26 and 69), so a rejected list leaves a file behind.
\* A failure inside the thin-space pass is caught at 242 and only printed.
\* A style value that int() or float() rejects raises, and so does Popen
\* when the engine cannot be started: the input and cue files then stay.  A
\* failed run of the engine may leave a partial output file behind.
BurnRun(j) ==
    /\ Quiet
    /\ At(j, "srt") /\ IsType(j, "burn-captions")
    /\ IF SrtRaises(args[j]) /= NONE
       THEN /\ worker' = [worker EXCEPT ![j].pc = "except",
                                        ![j].exc = SrtRaises(args[j])]
            /\ events' = events
            /\ files' = files \cup {srt_path(j)}
       ELSE \/ /\ worker' = [worker EXCEPT ![j].pc = "except",
                                           ![j].exc = "invalid style value"]
               /\ events' = events
               /\ files' = files \cup {srt_path(j)}
            \/ \E patch_raised \in (IF limits.inputs = "all" THEN BOOLEAN ELSE {FALSE}),
                  returncode \in {0, 1}, partial \in Leftovers :
               \* what the failing engine writes to stderr, as the lengths of
               \* its lines: a short output, or one longer than the buffer holds
               \E stderr \in IF returncode = 0 THEN {<<>>}
                              ELSE IF limits.inputs = "all"
                                   THEN { <<150>>, <<1000, 1000, 100>> }
                                   ELSE { <<1000, 1000, 100>> } :
                 /\ worker' = [worker EXCEPT
                                  ![j].pc = "update",
                                  ![j].returncode = returncode,
                                  ![j].stderr_output = Total(StderrBuffer(stderr, <<>>))]
                 /\ events' = [events EXCEPT ![j] =
                                  @ \cup {"transcode"}
                                    \cup (IF patch_raised THEN {"patch raised"} ELSE {})]
                 /\ files' = (IF returncode = 0 \/ partial
                              THEN files \cup {output_path(j)} ELSE files)
                                 \ {input_path(j), srt_path(j)}
    /\ UNCHANGED <<processing_jobs, order, detached, now, next_id, args, client, limits>>

\* A worker that stores all it kept of the engine's output.
BurnUpdateFullOutput(j) ==
    /\ Quiet
    /\ At(j, "update") /\ IsType(j, "burn-captions")
    /\ processing_jobs' =
         IF worker[j].returncode = 0
         THEN UpdateIfPresent(j, [status |-> "completed",
                                  output_path |-> output_path(j),
                                  completed_at |-> now])
         ELSE UpdateIfPresent(j, [status |-> "error",
                                  error |-> [text |-> "Failed to burn captions: ",
                                             diagnostic |-> worker[j].stderr_output],
                                  completed_at |-> now])
    /\ worker' = [worker EXCEPT ![j] = DoneWorker]
    /\ args' = [args EXCEPT ![j] = DoneArgs(@)]
    /\ UNCHANGED <<order, detached, files, now, next_id, events, client, limits>>

\* process_burn_captions 305-325.
BurnUpdate(j) ==
    /\ Quiet
    /\ At(j, "update") /\ IsType(j, "burn-captions")
    /\ processing_jobs' =
         IF worker[j].returncode = 0
         THEN UpdateIfPresent(j, [status |-> "completed",
                                  output_path |-> output_path(j),
                                  completed_at |-> now])
         ELSE UpdateIfPresent(j, [status |-> "error",
                                  error |-> [text |-> "Failed to burn captions: ",
                                             diagnostic |->
                                                 Truncate(worker[j].stderr_output,
                                                          ErrorChars)],
                                  completed_at |-> now])
    /\ worker' = [worker EXCEPT ![j] = DoneWorker]
    /\ args' = [args EXCEPT ![j] = DoneArgs(@)]
    /\ UNCHANGED <<order, detached, files, now, next_id, events, client, limits>>

(* ----------------------- app.py: cleanup_old_jobs ----------------------- *)

\* A sweep that takes a record in processing for one that is finished.
IsTerminalOrProcessing(job) ==
    Get(job, "status", NONE) \in TerminalStatuses \cup {"processing"}

\* job.get('status') in ['completed', 'error', 'no_silence']
IsTerminal(job) == Get(job, "status", NONE) \in TerminalStatuses

\* job.get('completed_at', job.get('created_at', 0))
CompletionTime(job) == Get(job, "completed_at", Get(job, "created_at", 0))

\* A retention test that also picks the records exactly at the limit.
ExpiredAtLimit(job, current_time) == current_time - CompletionTime(job) >= RetentionSeconds

\* Line 349: the retention test of the first pass.
Expired(job, current_time) == current_time - CompletionTime(job) > RetentionSeconds

\* A sweep that leaves the output files on the disk.
RemoveOutputKeeps(job, fs) == fs

\* Lines 351-357 and 372-377: remove the output file of a record, if the
\* record names one and it exists.  os.remove is taken to succeed (its
\* failure is swallowed at 356 and 376 and would leave the file).
RemoveOutput(job, fs) ==
    IF "output_path" \in DOMAIN job THEN fs \ {job.output_path} ELSE fs

\* Lines 344-358: the first pass over processing_jobs.items(), in insertion
\* order.  acc holds to_remove and the file system so far.
RECURSIVE FirstPass(_, _, _, _)
FirstPass(jobs, ids, current_time, acc) ==
    IF ids = <<>> THEN acc
    ELSE LET job_id == Head(ids)
             job == jobs[job_id]
         IN IF IsTerminal(job) /\ Expired(job, current_time)
            THEN FirstPass(jobs, Tail(ids), current_time,
                           [to_remove |-> Append(acc.to_remove, job_id),
                            files |-> RemoveOutput(job, acc.files)])
            ELSE FirstPass(jobs, Tail(ids), current_time, acc)

\* Lines 364-368: the terminal jobs that the first pass did not pick, in
\* insertion order.
RECURSIVE CompletedJobs(_, _, _)
CompletedJobs(jobs, ids, to_remove) ==
    IF ids = <<>> THEN <<>>
    ELSE LET jid == Head(ids)
             rest == CompletedJobs(jobs, Tail(ids), to_remove)
         IN IF IsTerminal(jobs[jid]) /\ jid \notin Range(to_remove)
            THEN <<[jid |-> jid, t |-> CompletionTime(jobs[jid])]>> \o rest
            ELSE rest

\* Insert x behind the elements whose key is not larger (a stable sort).
RECURSIVE InsertByTime(_, _)
InsertByTime(x, sorted) ==
    IF sorted = <<>> THEN <<x>>
    ELSE IF Head(sorted).t <= x.t
         THEN <<Head(sorted)>> \o InsertByTime(x, Tail(sorted))
         ELSE <<x>> \o sorted

\* A second pass that takes the terminal jobs in insertion order.
Unsorted(s) == s

\* Line 369: completed_jobs.sort(key=lambda x: x[1]).
RECURSIVE SortByTime(_)
SortByTime(s) ==
    IF s = <<>> THEN <<>>
    ELSE InsertByTime(s[Len(s)], SortByTime(SubSeq(s, 1, Len(s) - 1)))

\* s[:n] of Python for n >= 0.
Prefix(s, n) == SubSeq(s, 1, IF n < Len(s) THEN n ELSE Len(s))

\* Lines 371-378: the loop of the second pass over the oldest jobs.
RECURSIVE SecondPassLoop(_, _, _)
SecondPassLoop(jobs, oldest, acc) ==
    IF oldest = <<>> THEN acc
    ELSE LET jid == Head(oldest).jid
         IN SecondPassLoop(jobs, Tail(oldest),
                           [to_remove |-> Append(acc.to_remove, jid),
                            files |-> RemoveOutput(jobs[jid], acc.files)])

\* Lines 361-378.
SecondPass(jobs, ids, acc) ==
    LET remaining == Len(ids) - Len(acc.to_remove)
    IN IF remaining > max_jobs
       THEN SecondPassLoop(jobs,
                Prefix(SortByTime(CompletedJobs(jobs, ids, acc.to_remove)),
                       remaining - max_jobs),
                acc)
       ELSE acc

\* cleanup_old_jobs 343-381, the locked part: the table, its order and the
\* file system afterwards, and what each pass picked.
cleanup_old_jobs(jobs, ids, fs, current_time) ==
    LET first == FirstPass(jobs, ids, current_time, [to_remove |-> <<>>, files |-> fs])
        second == SecondPass(jobs, ids, first)
        gone == Range(second.to_remove)
    IN [jobs |-> Restrict(jobs, DOMAIN jobs \ gone),
        order |-> Without(ids, gone),
        files |-> second.files,
        first |-> first.to_remove,
        second |-> SubSeq(second.to_remove, Len(first.to_remove) + 1,
                          Len(second.to_remove))]

(* ------------------------ app.py: HTTP handlers ------------------------- *)

\* A request is given to the first free thread (which thread serves a
\* request changes nothing but the name of the thread).
Accepts(c) ==
    /\ client[c].pc = "idle"
    /\ c <= limits.clients
    /\ \A c2 \in Clients : c2 < c => client[c2].pc /= "idle"

Request(c, op, route, job_id) ==
    [IdleClient EXCEPT !.op = op, !.route = route, !.job_id = job_id]

\* A record that is out of the table and that no request thread refers to
\* is gone.
Collect(cl, d) ==
    Restrict(d, DOMAIN d \cap {cl[c].job_id : c \in {x \in Clients : cl[x].found}})

\* The handler returns r: the thread is free again and its references are
\* dropped; the request, the record the handler's lookup gave it (as it is
\* at the return) and the response are on record until the next step of
\* any thread.
Respond(c, r) ==
    /\ client' = [client EXCEPT ![c] = IdleClient]
    /\ detached' = Collect(client', detached)
    /\ response' = [op |-> client[c].op, route |-> client[c].route,
                    job_id |-> client[c].job_id,
                    after_delivery |-> client[c].after_delivery,
                    found |-> client[c].found,
                    job |-> IF client[c].found THEN Deref(client[c].job_id) ELSE <<>>,
                    resp |-> r]
    /\ call' = call
    /\ UNCHANGED <<lock, thread>>

\* remove_silence_async 451-459 and burn_captions_async 660-679: a request
\* without video_url (or without words, or with words of the wrong type) is
\* answered at once and no job is created.
SubmitRejected(c) ==
    /\ Accepts(c)
    /\ \E route \in JOB_TYPES :
         /\ client' = client
         /\ response' = [op |-> "submit", route |-> route, job_id |-> 0,
                         after_delivery |-> FALSE, found |-> FALSE, job |-> <<>>,
                         resp |-> [code |-> 400, error |-> "video_url required"]]
    /\ UNCHANGED <<processing_jobs, order, detached, files, now, next_id, args,
                   worker, events, limits, call, lock, thread>>

\* The arguments of the worker of a request on the given route.
WorkerArgs(route) ==
    IF route = "remove-silence"
    THEN {[job_type |-> route]}
    ELSE {[job_type |-> route, words |-> w, words_per_line |-> WordsPerLine,
           caption_style |-> cs] :
             \* a list whose middle word lacks start and end
             w \in { <<W(0, 1, "a"), [text |-> "b"], W(2, 3, "c")>> },
             cs \in CaptionStyles}

\* remove_silence_async 464-476 and burn_captions_async 704-714: a fresh id
\* and the insertion of the pending record.
SubmitInsert(c) ==
    /\ Quiet
    /\ Accepts(c)
    /\ next_id <= limits.jobs
    /\ \E route \in JOB_TYPES : \E a \in WorkerArgs(route) :
         /\ client' = [client EXCEPT ![c] =
                          [Request(c, "submit", route, next_id) EXCEPT !.pc = "start"]]
         /\ processing_jobs' =
               (next_id :> [status |-> "pending", created_at |-> now,
                            job_type |-> route]) @@ processing_jobs
         /\ args' = (next_id :> a) @@ args
    /\ order' = Append(order, next_id)
    /\ next_id' = next_id + 1
    /\ UNCHANGED <<detached, files, now, worker, events, limits>>

\* remove_silence_async 479-484 and burn_captions_async 717-722:
\* thread.start().
SubmitStart(c) ==
    /\ Quiet
    /\ client[c].pc = "start"
    /\ worker' = (client[c].job_id :> NewWorker) @@ worker
    /\ events' = (client[c].job_id :> {}) @@ events
    /\ client' = [client EXCEPT ![c].pc = "cleanup"]
    /\ UNCHANGED <<processing_jobs, order, detached, files, now, next_id, args, limits>>

\* remove_silence_status 498 and burn_captions_status 739: the handler
\* starts with cleanup_old_jobs(), whose first statement (340) reads the
\* clock.
StatusBegin(c) ==
    /\ Quiet
    /\ Accepts(c)
    /\ \E route \in JOB_TYPES, job_id \in 1..limits.jobs :
         client' = [client EXCEPT ![c] =
                       [Request(c, "status", route, job_id) EXCEPT
                           !.pc = "sweep", !.current_time = now]]
    /\ UNCHANGED <<processing_jobs, order, detached, files, now, next_id, args,
                   worker, events, limits>>

\* cleanup_old_jobs 340 when called from a submit handler (487, 725):
\* current_time = time.time(), before the lock.
CleanupRead(c) ==
    /\ Quiet
    /\ client[c].pc = "cleanup"
    /\ client' = [client EXCEPT ![c].pc = "sweep", ![c].current_time = now]
    /\ UNCHANGED <<processing_jobs, order, detached, files, now, next_id, args,
                   worker, events, limits>>

\* cleanup_old_jobs 343-381, under the lock.
CleanupSweep(c) ==
    /\ Quiet
    /\ client[c].pc = "sweep"
    /\ LET r == cleanup_old_jobs(processing_jobs, order, files, client[c].current_time)
           gone == Range(r.first) \cup Range(r.second)
       IN /\ processing_jobs' = r.jobs
          /\ order' = r.order
          /\ files' = r.files
          /\ detached' = Collect(client, Restrict(processing_jobs, gone) @@ detached)
    /\ client' = [client EXCEPT ![c].current_time = 0,
                                ![c].pc = IF client[c].op = "submit" THEN "respond"
                                          ELSE "lookup"]
    /\ UNCHANGED <<now, next_id, args, worker, events, limits>>

\* remove_silence_async 489-493 and burn_captions_async 727-731.
SubmitReturn(c) ==
    /\ client[c].pc = "respond" /\ client[c].op = "submit"
    /\ Respond(c, [code |-> 202, status |-> "pending", job_id |-> client[c].job_id])
    /\ UNCHANGED <<processing_jobs, order, files, now, next_id, args,
                   worker, events, limits>>

\* remove_silence_status 500-501, burn_captions_status 741-742,
\* remove_silence_download 542-543, burn_captions_download 781-782:
\* job = processing_jobs.get(job_id), under the lock.
StatusLookup(c) ==
    /\ Quiet
    /\ client[c].pc = "lookup" /\ client[c].op = "status"
    /\ client' = [client EXCEPT ![c].pc = "respond",
                                ![c].found = client[c].job_id \in DOMAIN processing_jobs]
    /\ UNCHANGED <<processing_jobs, order, detached, files, now, next_id, args,
                   worker, events, limits>>

StatusNotFound ==
    [code |-> 404, status |-> "error",
     message |-> "Job not found. Job may have expired or never existed."]

\* The fields a status response adds for the status of the record
\* (remove_silence_status 517-535, burn_captions_status 764-774).
StatusExtras(route, job_id, job) ==
    IF job.status = "completed"
    THEN IF route = "remove-silence"
         THEN [silence_removed |-> Get(job, "silence_removed", 0),
               completed_at |-> Get(job, "completed_at", NONE),
               download_url |-> <<"/remove-silence/download/", job_id>>]
         ELSE [completed_at |-> Get(job, "completed_at", NONE),
               download_url |-> <<"/burn-captions/download/", job_id>>]
    ELSE IF job.status = "no_silence" /\ route = "remove-silence"
    THEN [message |-> Get(job, "message", "No silence found"),
          completed_at |-> Get(job, "completed_at", NONE)]
    ELSE IF job.status = "error"
    THEN [error |-> Get(job, "error", Text("Unknown error")),
          completed_at |-> Get(job, "completed_at", NONE)]
    ELSE <<>>

\* A status handler that tells an id that was issued and is gone from one
\* that was never issued.
StatusResponseTellsExpired(route, job_id, found, head, job) ==
    IF ~found
    THEN IF job_id \in Issued
         THEN [code |-> 404, status |-> "error", message |-> "Job expired."]
         ELSE StatusNotFound
    ELSE IF route = "burn-captions" /\ Get(job, "job_type", NONE) /= "burn-captions"
    THEN [code |-> 400, status |-> "error",
          message |-> "Job ID does not match burn-captions job type"]
    ELSE StatusExtras(route, job_id, job) @@ head

\* remove_silence_status 510-515 and burn_captions_status 757-762: the dict
\* the response starts as, read from the record.
StatusHead(job_id, job) ==
    [code |-> 200, job_id |-> job_id, status |-> job.status,
     created_at |-> Get(job, "created_at", NONE),
     progress |-> Get(job, "progress", "Unknown")]

\* remove_silence_status 503-537 and burn_captions_status 744-776: the
\* response, from the dict built first and the record as it is when the
\* branch on its status is taken.
StatusResponse(route, job_id, found, head, job) ==
    IF ~found THEN StatusNotFound
    ELSE IF route = "burn-captions" /\ Get(job, "job_type", NONE) /= "burn-captions"
    THEN [code |-> 400, status |-> "error",
          message |-> "Job ID does not match burn-captions job type"]
    ELSE StatusExtras(route, job_id, job) @@ head

\* remove_silence_status 503-515 and burn_captions_status 744-762, outside
\* the lock: the answers for no record and for a record of the other job
\* type, or else the first reads of the record (status, created_at,
\* progress) into the response dict.
StatusRead(c) ==
    /\ client[c].pc = "respond" /\ client[c].op = "status"
    /\ LET job_id == client[c].job_id
           route == client[c].route
           job == IF client[c].found THEN Deref(job_id) ELSE <<>>
       IN IF \/ ~client[c].found
             \/ route = "burn-captions" /\ Get(job, "job_type", NONE) /= "burn-captions"
          THEN Respond(c, StatusResponse(route, job_id, client[c].found, <<>>, job))
          ELSE /\ client' = [client EXCEPT ![c].pc = "branch",
                                           ![c].head = StatusHead(job_id, job)]
               /\ detached' = detached
               /\ Quiet
    /\ UNCHANGED <<processing_jobs, order, files, now, next_id, args,
                   worker, events, limits>>

\* remove_silence_status 517-537 and burn_captions_status 764-776, outside
\* the lock: the record's status is read again, the fields of that status
\* are added to the response dict, and the handler returns.
StatusRespond(c) ==
    /\ client[c].pc = "branch"
    /\ Respond(c, StatusResponse(client[c].route, client[c].job_id, TRUE,
                                 client[c].head, Deref(client[c].job_id)))
    /\ UNCHANGED <<processing_jobs, order, files, now, next_id, args,
                   worker, events, limits>>

DownloadJobNotFound == [code |-> 404, status |-> "error", message |-> "Job not found"]

DownloadWrongType(route, actual_type) ==
    [code |-> 400, status |-> "error",
     message |-> <<"Job ID does not match job type", route, actual_type>>]

DownloadNotCompleted(status) ==
    [code |-> 400, status |-> "error",
     message |-> <<"Job is not completed. Current status:", status>>]

OutputNotFound ==
    [code |-> 404, status |-> "error",
     message |-> "Output file not found. It may have been cleaned up."]

\* The response object of a download whose checks passed; delivered tells
\* whether the body carried the file.
FileResponse(delivered) == [code |-> 200, mimetype |-> "video/mp4", delivered |-> delivered]

\* remove_silence_download 542-543 and burn_captions_download 781-782.
DownloadLookup(c) ==
    /\ Quiet
    /\ Accepts(c)
    /\ \E route \in JOB_TYPES, job_id \in 1..limits.jobs :
         client' = [client EXCEPT ![c] =
                       [Request(c, "download", route, job_id) EXCEPT
                           !.pc = "check",
                           !.found = job_id \in DOMAIN processing_jobs,
                           !.after_delivery =
                               job_id \in DOMAIN events /\ "delivered" \in events[job_id]]]
    /\ UNCHANGED <<processing_jobs, order, detached, files, now, next_id, args,
                   worker, events, limits>>

\* A download handler that does not compare the job type of the record
\* with its own.
DownloadCheckAnyType(c) ==
    /\ client[c].pc = "check"
    /\ LET job_id == client[c].job_id
       IN IF ~client[c].found
          THEN Respond(c, DownloadJobNotFound)
          ELSE LET job == Deref(job_id)
               IN IF job.status /= "completed"
                  THEN Respond(c, DownloadNotCompleted(job.status))
                  ELSE IF "output_path" \notin DOMAIN job \/ job.output_path \notin files
                  THEN Respond(c, OutputNotFound)
                  ELSE /\ client' = [client EXCEPT ![c].pc = "build"]
                       /\ detached' = detached
                       /\ Quiet
    /\ UNCHANGED <<processing_jobs, order, files, now, next_id, args,
                   worker, events, limits>>

\* remove_silence_download 545-569 and burn_captions_download 784-808: the
\* checks on the record the reference points to and on the file system.
DownloadCheck(c) ==
    /\ client[c].pc = "check"
    /\ LET job_id == client[c].job_id
           route == client[c].route
       IN IF ~client[c].found
          THEN Respond(c, DownloadJobNotFound)
          ELSE LET job == Deref(job_id)
               IN IF Get(job, "job_type", NONE) /= route
                  THEN Respond(c, DownloadWrongType(route, Get(job, "job_type", "unknown")))
                  ELSE IF job.status /= "completed"
                  THEN Respond(c, DownloadNotCompleted(job.status))
                  ELSE IF "output_path" \notin DOMAIN job \/ job.output_path \notin files
                  THEN Respond(c, OutputNotFound)
                  ELSE /\ client' = [client EXCEPT ![c].pc = "build"]
                       /\ detached' = detached
                       /\ Quiet
    /\ UNCHANGED <<processing_jobs, order, files, now, next_id, args,
                   worker, events, limits>>

\* remove_silence_download 581-599 and burn_captions_download 820-838: the
\* Response is built with os.path.getsize(output_path), which raises when
\* the file is gone; the handler then returns.
DownloadBuild(c) ==
    /\ client[c].pc = "build"
    /\ IF Deref(client[c].job_id).output_path \in files
       THEN /\ client' = [client EXCEPT ![c].pc = "stream"]
            /\ detached' = detached
            /\ Quiet
       \* an unhandled exception in the handler
       ELSE Respond(c, [code |-> 500])
    /\ UNCHANGED <<processing_jobs, order, files, now, next_id, args,
                   worker, events, limits>>

\* generate() 572-578 and 811-817: the file is opened when the body is first
\* asked for; once open it is read to its end even when it is unlinked.
DownloadStream(c) ==
    /\ Quiet
    /\ client[c].pc = "stream"
    /\ client' = [client EXCEPT ![c].pc = "close",
                     ![c].delivered = Deref(client[c].job_id).output_path \in files]
    /\ UNCHANGED <<processing_jobs, order, detached, files, now, next_id, args,
                   worker, events, limits>>

\* A download whose close leaves the output file in place.
DownloadCloseKeepsFile(c) ==
    /\ client[c].pc = "close"
    /\ files' = files
    /\ events' = [events EXCEPT ![client[c].job_id] =
                     IF client[c].delivered THEN @ \cup {"delivered"} ELSE @]
    /\ Respond(c, FileResponse(client[c].delivered))
    /\ UNCHANGED <<processing_jobs, order, now, next_id, args, worker, limits>>

\* cleanup() 590-597 and 829-836, run when the response is closed.
DownloadClose(c) ==
    /\ client[c].pc = "close"
    /\ files' = files \ {Deref(client[c].job_id).output_path}
    /\ events' = [events EXCEPT ![client[c].job_id] =
                     IF client[c].delivered THEN @ \cup {"delivered"} ELSE @]
    /\ Respond(c, FileResponse(client[c].delivered))
    /\ UNCHANGED <<processing_jobs, order, now, next_id, args, worker, limits>>

(* ---------------------------- specification ---------------------------- *)

WorkerStep(j) ==
    \/ WorkerBegin(j)
    \/ SilenceProgress(j)
    \/ SilenceRun(j)
    \/ SilenceUpdate(j)
    \/ BurnProgress(j)
    \/ BurnDownload(j)
    \/ BurnProgress2(j)
    \/ BurnRun(j)
    \/ BurnUpdate(j)
    \/ WorkerExcept(j)

ClientStep(c) ==
    \/ SubmitRejected(c)
    \/ SubmitInsert(c)
    \/ SubmitStart(c)
    \/ SubmitReturn(c)
    \/ StatusBegin(c)
    \/ CleanupRead(c)
    \/ CleanupSweep(c)
    \/ StatusLookup(c)
    \/ StatusRead(c)
    \/ StatusRespond(c)
    \/ DownloadLookup(c)
    \/ DownloadCheck(c)
    \/ DownloadBuild(c)
    \/ DownloadStream(c)
    \/ DownloadClose(c)

Next ==
    \/ Tick
    \/ \E j \in JobIds : WorkerStep(j)
    \/ \E c \in Clients : ClientStep(c)

Spec == Init /\ [][Next]_vars

(* A server that has been running: the table holds many records already.
   The workers of the records that are not terminal are inside a download or
   a run of the engine for the whole run. *)

\* A record of the loaded table: the j-th id, the given status, finished (if
\* terminal) at time t.
Loaded(j, status, t) ==
    LET base == [status |-> status, created_at |-> 0, job_type |-> "remove-silence",
                 progress |-> "Processing video..."]
    IN IF status = "completed"
       THEN Update(base, [output_path |-> output_path(j), silence_removed |-> 1,
                          completed_at |-> t])
       ELSE IF status = "no_silence"
       THEN Update(base, [message |-> "No silence found", completed_at |-> t])
       ELSE IF status = "error"
       THEN Update(base, [error |-> Text("download failed"), completed_at |-> t])
       ELSE base

\* The terminal records at the head of a loaded table, in insertion order,
\* as <<status, completion time>>.  The sweeps of a loaded run happen at
\* SweepStart and later, so the times 0, 1 and 2 are more than, exactly and
\* less than the retention time before the first sweep.
SweepStart == RetentionSeconds + 1

LoadedHeads ==
    { <<>>,
      << <<"error", 0>>, <<"completed", 1>>, <<"no_silence", 2>> >>,
      << <<"completed", 2>>, <<"error", 1>>, <<"completed", 1>>, <<"completed", 0>> >>,
      << <<"completed", 2>>, <<"no_silence", 1>> >> }

\* The ids of the loaded records follow those of the jobs of the run.
LoadedId(i) == NJobs + i

LoadedTable(head, n) ==
    [j \in {LoadedId(i) : i \in 1..n} |->
        LET i == j - NJobs
        IN IF i <= Len(head) THEN Loaded(j, head[i][1], head[i][2])
           ELSE Loaded(j, IF i % 2 = 0 THEN "processing" ELSE "pending", 0)]

SweepInit ==
    \* the size of the table is around the maximum the second pass enforces
    \E head \in LoadedHeads, n \in {max_jobs - 1, max_jobs + 1, max_jobs + 2} :
        /\ processing_jobs = LoadedTable(head, n)
        /\ order = [i \in 1..n |-> LoadedId(i)]
        /\ detached = <<>>
        /\ files = {output_path(LoadedId(i)) :
                        i \in {k \in 1..Len(head) : head[k][1] = "completed"}}
        /\ now = SweepStart
        /\ next_id = 1
        /\ args = <<>>
        /\ worker = <<>>
        /\ events = <<>>
        /\ client = [c \in Clients |-> IdleClient]
        /\ response = NoResponse
        /\ call = NoCall
        /\ lock = NONE
        /\ thread = NoThreads
        /\ limits = [jobs |-> 1, clients |-> 1, horizon |-> SweepStart + TimeStep,
                     inputs |-> "all"]

SpecSweep == SweepInit /\ [][Next]_vars

\* Fair scheduling of the threads: a worker thread that can take a step
\* eventually takes one (the download and the engine return or raise), and a
\* submit handler that has inserted its record eventually starts the worker.
LiveSpec ==
    /\ InitIn({ [jobs |-> 1, clients |-> 1, horizon |-> MaxTime, inputs |-> "all"] })
    /\ [][Next]_vars
    /\ \A j \in JobIds : WF_vars(WorkerStep(j))
    /\ \A c \in Clients : WF_vars(SubmitStart(c))

(* ------------------ the library functions on their own ----------------- *)

\* The longest video and the most silences of a call of the planner.
MaxDuration == 4

MaxSilences == 3

\* What detect_silence can report for a video of the given duration: up to
\* MaxSilences intervals inside the video, in the order of their starts,
\* none overlapping the next.
SilenceLists(video_duration) ==
    LET intervals == {iv \in [start : 0..video_duration, end : 0..video_duration] :
                        iv.start < iv.end}
    IN UNION { {s \in [1..n -> intervals] :
                    \A i \in 1..(n - 1) : s[i].end <= s[i + 1].start} :
               n \in 0..MaxSilences }

\* The most words of a call of a cue generator.
MaxWords == 5

\* The i-th word of a transcript: its times in units of 1/Scale.
Word(i) ==
    W((i - 1) * 12000 + 3000, i * 12000,
      <<"a", "b", "c", "d", "e", "f">>[((i - 1) % 6) + 1])

\* A transcript of n words.
Transcript(n) == [i \in 1..n |-> Word(i)]

\* The word lists a cue generator is called with: transcripts, transcripts
\* with one word that lacks a field, transcripts with one word that is not
\* a dict, and a list whose words are not in the order of their times.
WordLists ==
    {<<Word(3), Word(1), Word(2)>>} \cup
    UNION { {Transcript(n)}
              \cup {[Transcript(n) EXCEPT ![p] = Restrict(@, DOMAIN @ \ {f})] :
                        p \in 1..n, f \in {"start", "end", "text"}}
              \cup {[Transcript(n) EXCEPT ![p] = NotADict] : p \in 1..n} :
            n \in 1..MaxWords }

\* The values of words_per_line of the calls.
ChunkSizes == 1..3

\* A text with a run of two spaces inside.
Spaced == "a  b"

\* " ".join(s.split()) on the texts of the model.
Collapse(s) == IF s = Spaced THEN "a b" ELSE s

\* process_burn_captions 183-187: the pass over the words before the cues
\* are made.  It rewrites the value under the key 'word' of the dicts that
\* have this key.
SanitizeWords(words) ==
    [i \in 1..Len(words) |->
        IF IsDict(words[i]) /\ "word" \in DOMAIN words[i]
        THEN [words[i] EXCEPT !.word = Collapse(@)]
        ELSE words[i]]

\* process_burn_captions 183-187 and 222-225: the cues made of the words of
\* a request.
BurnCues(words, words_per_line, caption_style, all_caps) ==
    IF caption_style = "word-by-word"
    THEN create_word_by_word_srt(SanitizeWords(words), all_caps)
    ELSE create_srt_from_words(SanitizeWords(words), words_per_line, all_caps)

\* Word lists with a text that has a run of spaces inside: under the key
\* text alone, and under both keys text and word.
SpacedWordLists ==
    { <<W(3000, 12000, Spaced), Word(2)>>,
      <<[start |-> 3000, end |-> 12000, text |-> Spaced, word |-> Spaced], Word(2)>>,
      <<Word(1), [start |-> 15000, end |-> 24000, text |-> "b", word |-> Spaced]>> }

LibraryCalls ==
    {[fn |-> "create_filter_complex", state |-> "called", outcome |-> NONE,
      arguments |-> [silences |-> s, video_duration |-> d]] :
        d \in 1..MaxDuration, s \in UNION {SilenceLists(x) : x \in 1..MaxDuration}}
    \cup {[fn |-> "format_timestamp", state |-> "called", outcome |-> NONE,
           arguments |-> [seconds |-> t]] :
             \* seconds in units of 1/Scale
             t \in {14995, 36612000, 10, 9990, 10010, 599999, 35999999, 43500}
                     \cup {t1 * 1000 : t1 \in 0..40}}
    \cup {[fn |-> "create_srt_from_words", state |-> "called", outcome |-> NONE,
           arguments |-> [words |-> w, words_per_line |-> k, all_caps |-> u]] :
             w \in WordLists, k \in ChunkSizes, u \in BOOLEAN}
    \cup {[fn |-> "create_word_by_word_srt", state |-> "called", outcome |-> NONE,
           arguments |-> [words |-> w, all_caps |-> u]] :
             w \in WordLists, u \in BOOLEAN}
    \cup {[fn |-> "process_burn_captions", state |-> "called", outcome |-> NONE,
           arguments |-> [words |-> w, words_per_line |-> k, caption_style |-> y,
                          all_caps |-> FALSE]] :
             w \in SpacedWordLists, k \in ChunkSizes, y \in CaptionStyles}

\* One call of a library function, in a process that serves no request.
LibInit ==
    /\ processing_jobs = <<>>
    /\ order = <<>>
    /\ detached = <<>>
    /\ files = {}
    /\ now = 0
    /\ next_id = 1
    /\ args = <<>>
    /\ worker = <<>>
    /\ events = <<>>
    /\ client = [c \in Clients |-> IdleClient]
    /\ response = NoResponse
    /\ lock = NONE
    /\ thread = NoThreads
    /\ limits = [jobs |-> 0, clients |-> 0, horizon |-> 0, inputs |-> "few"]
    /\ call \in {c \in LibraryCalls :
                    c.fn = "create_filter_complex"
                        => c.arguments.silences
                              \in SilenceLists(c.arguments.video_duration)}

\* The call returns (or raises): outcome is what it gave.
Return(outcome) ==
    /\ call.state = "called"
    /\ call' = [call EXCEPT !.state = "returned", !.outcome = outcome]
    /\ UNCHANGED <<processing_jobs, order, detached, files, now, next_id, args,
                   worker, events, client, limits, response, lock, thread>>

PlannerCall ==
    /\ call.fn = "create_filter_complex"
    /\ LET a == call.arguments
       IN Return([segments |-> KeepSegments(a.silences, a.video_duration),
                  result |-> create_filter_complex(a.silences, a.video_duration)])

FormatCall ==
    /\ call.fn = "format_timestamp"
    /\ Return([result |-> format_timestamp(Float(call.arguments.seconds))])

GroupedCall ==
    /\ call.fn = "create_srt_from_words"
    /\ LET a == call.arguments
       IN Return(create_srt_from_words(a.words, a.words_per_line, a.all_caps))

WordByWordCall ==
    /\ call.fn = "create_word_by_word_srt"
    /\ LET a == call.arguments
       IN Return(create_word_by_word_srt(a.words, a.all_caps))

BurnCuesCall ==
    /\ call.fn = "process_burn_captions"
    /\ LET a == call.arguments
       IN Return(BurnCues(a.words, a.words_per_line, a.caption_style, a.all_caps))

LibNext ==
    \/ PlannerCall
    \/ FormatCall
    \/ GroupedCall
    \/ WordByWordCall
    \/ BurnCuesCall

LibSpec == LibInit /\ [][LibNext]_vars

\* The call of the given function has returned.
Returned(fn) == call.fn = fn /\ call.state = "returned"

(* ------------------ jobs_lock, acquisition by acquisition --------------- *)

\* One step of a function.  op: "acquire" is the entry of `with jobs_lock:`
\* (it waits until the lock is free), "mutate" the body of the block,
\* "release" its exit, "work" a step outside the table (what tells which),
\* "return" the end of the function.  inside: the step is in the body of a
\* with block.  handler: the label of the except clause an exception of
\* the step reaches, NONE when it leaves the function.  label: the name by
\* which the step is the target of a jump.
Step(op, what, line, inside, handler, label) ==
    [op |-> op, what |-> what, line |-> line, inside |-> inside,
     handler |-> handler, label |-> label]

\* A block `with jobs_lock:` at the given line.
With(line, handler, label) ==
    << Step("acquire", NONE, line, FALSE, handler, label),
       Step("mutate", NONE, line, TRUE, handler, NONE),
       Step("release", NONE, line, TRUE, handler, NONE) >>

\* A download or a run of the engine between two acquisitions of the lock.
LongCallUnderLock(what, line, handler) ==
    << Step("acquire", NONE, line, FALSE, handler, NONE),
       Step("work", what, line, TRUE, handler, NONE),
       Step("release", NONE, line, TRUE, handler, NONE) >>

\* A download or a run of the engine: the worker calls it outside every
\* with block.
LongCall(what, line, handler) ==
    << Step("work", what, line, FALSE, handler, NONE) >>

\* `return` (or the end of the function).
Ret(line, label) == << Step("return", NONE, line, FALSE, NONE, label) >>

\* A sweep called from inside a block under the lock.
SweepCallUnderLock(line, handler) ==
    << Step("acquire", NONE, line, FALSE, handler, NONE) >>
        \o With(343, handler, "sweep")
        \o << Step("release", NONE, line, TRUE, handler, NONE) >>

\* The call of cleanup_old_jobs at the given line: the function takes the
\* lock itself (338-381, with block at 343), the caller holds nothing.
SweepCall(line, handler) == With(343, handler, "sweep")

\* process_silence_removal (92-158).
SilenceWorkerCode ==
    With(94, NONE, NONE)
        \o With(114, "except", NONE)
        \o LongCall("download and engine", 119, "except")
        \o With(126, "except", NONE)
        \o Ret(149, NONE)
        \o With(152, NONE, "except")
        \o Ret(158, NONE)

\* process_burn_captions (160-336).  The last block under the lock is the
\* one at 309 (exit code 0) or the one at 319.
BurnWorkerCode ==
    With(164, NONE, NONE)
        \o With(190, "except", NONE)
        \o LongCall("download", 204, "except")
        \o With(216, "except", NONE)
        \o LongCall("cues and engine", 223, "except")
        \o With(309, "except", NONE)
        \o Ret(325, NONE)
        \o With(330, NONE, "except")
        \o Ret(336, NONE)

\* remove_silence_async (448-493): no try block.
SilenceSubmitCode ==
    With(468, NONE, NONE)
        \o << Step("work", "start thread", 479, FALSE, NONE, NONE) >>
        \o SweepCall(487, NONE)
        \o Ret(489, NONE)

\* burn_captions_async (635-734): the body is in a try block whose except
\* clause returns the 500 response.
BurnSubmitCode ==
    With(708, "except", NONE)
        \o << Step("work", "start thread", 717, FALSE, "except", NONE) >>
        \o SweepCall(725, "except")
        \o Ret(727, NONE)
        \o Ret(734, "except")

\* remove_silence_status (495-537) and burn_captions_status (736-776).
StatusCode(sweep_line, with_line, return_line) ==
    SweepCall(sweep_line, NONE)
        \o With(with_line, NONE, NONE)
        \o Ret(return_line, NONE)

\* remove_silence_download (539-599) and burn_captions_download (778-838).
DownloadCode(with_line, stream_line, return_line) ==
    With(with_line, NONE, NONE)
        \o << Step("work", "stream", stream_line, FALSE, NONE, NONE) >>
        \o Ret(return_line, NONE)

\* The functions that touch the lock, each with its steps.
Code ==
    [process_silence_removal |-> SilenceWorkerCode,
     process_burn_captions |-> BurnWorkerCode,
     remove_silence_async |-> SilenceSubmitCode,
     burn_captions_async |-> BurnSubmitCode,
     remove_silence_status |-> StatusCode(498, 500, 537),
     burn_captions_status |-> StatusCode(739, 741, 776),
     remove_silence_download |-> DownloadCode(542, 572, 599),
     burn_captions_download |-> DownloadCode(781, 811, 838)]

\* The threads followed: worker threads and request threads.
WorkerThreads == {"worker 1", "worker 2"}

RequestThreads == {"request 1"}

Threads == WorkerThreads \cup RequestThreads

\* The worker threads run a worker function each, the request threads a
\* handler each; the lock is free.
LockInit ==
    /\ processing_jobs = <<>>
    /\ order = <<>>
    /\ detached = <<>>
    /\ files = {}
    /\ now = 0
    /\ next_id = 1
    /\ args = <<>>
    /\ worker = <<>>
    /\ events = <<>>
    /\ client = [c \in Clients |-> IdleClient]
    /\ response = NoResponse
    /\ call = NoCall
    /\ limits = [jobs |-> 0, clients |-> 0, horizon |-> 0, inputs |-> "few"]
    /\ lock = NONE
    /\ thread \in {f \in [Threads -> {[fn |-> fn, pc |-> 1, raised |-> FALSE] : fn \in DOMAIN Code}] :
                     /\ \A t \in WorkerThreads :
                            f[t].fn \in {"process_silence_removal", "process_burn_captions"}
                     /\ \A t \in RequestThreads :
                            f[t].fn \notin {"process_silence_removal", "process_burn_captions"}}

\* The function of thread t has ended.
Ended(t) == thread[t].pc > Len(Code[thread[t].fn])

\* The step thread t is at.
Current(t) == Code[thread[t].fn][thread[t].pc]

AtOp(t, op) == ~Ended(t) /\ Current(t).op = op

\* Nothing but the lock and the threads changes.
LockFrame ==
    UNCHANGED <<processing_jobs, order, detached, files, now, next_id, args,
                worker, events, client, limits, response, call>>

Advance(t) == thread' = [thread EXCEPT ![t].pc = @ + 1]

\* jobs_lock.__enter__: the thread waits until the lock is free.
Acquire(t) ==
    /\ AtOp(t, "acquire")
    /\ lock = NONE
    /\ lock' = t
    /\ Advance(t)
    /\ LockFrame

\* The body of a with block runs to its end.
Mutate(t) ==
    /\ AtOp(t, "mutate")
    /\ Advance(t)
    /\ UNCHANGED lock
    /\ LockFrame

\* jobs_lock.__exit__ at the end of the block.
Release(t) ==
    /\ AtOp(t, "release")
    /\ lock' = IF lock = t THEN NONE ELSE lock
    /\ Advance(t)
    /\ LockFrame

\* A step outside the table runs to its end.
Work(t) ==
    /\ AtOp(t, "work")
    /\ Advance(t)
    /\ UNCHANGED lock
    /\ LockFrame

\* A step raises: a with block it is in is left through __exit__, which
\* releases the lock; control goes to the except clause, or leaves the
\* function.
Raise(t) ==
    /\ AtOp(t, "mutate") \/ AtOp(t, "work")
    /\ lock' = IF Current(t).inside /\ lock = t THEN NONE ELSE lock
    /\ thread' = IF Current(t).handler = NONE
                 THEN [thread EXCEPT ![t].pc = Len(Code[thread[t].fn]) + 1,
                                     ![t].raised = TRUE]
                 \* the step of the function that carries the handler's label
                 ELSE [thread EXCEPT ![t].pc =
                          CHOOSE i \in 1..Len(Code[thread[t].fn]) :
                              Code[thread[t].fn][i].label = Current(t).handler]
    /\ LockFrame

\* The function returns.
ThreadReturn(t) ==
    /\ AtOp(t, "return")
    /\ thread' = [thread EXCEPT ![t].pc = Len(Code[thread[t].fn]) + 1]
    /\ UNCHANGED lock
    /\ LockFrame

ThreadStep(t) ==
    \/ Acquire(t)
    \/ Mutate(t)
    \/ Release(t)
    \/ Work(t)
    \/ Raise(t)
    \/ ThreadReturn(t)

LockNext == \E t \in Threads : ThreadStep(t)

LockSpec == LockInit /\ [][LockNext]_vars

\* Fair scheduling: a thread that can take a step eventually takes one.
LockLiveSpec == LockSpec /\ \A t \in Threads : WF_vars(ThreadStep(t))

(* ------------------------------- claims -------------------------------- *)

\* The steps a stored status may take.
StatusSteps ==
    {<<"pending", "processing">>}
        \cup {<<"processing", t>> : t \in TerminalStatuses}

\* C1: the statuses stored in a job's record follow pending, processing,
\* then one of completed / no_silence / error: a record enters the table
\* with status pending, every change of a stored status is one step of that
\* sequence, and the status of a terminal record is never changed while the
\* record is in the table, whatever worker or handler takes the step.
C1_StatusSequence ==
    [][\A j \in JobIds :
         /\ (j \notin DOMAIN processing_jobs /\ j \in DOMAIN processing_jobs')
                => processing_jobs'[j].status = "pending"
         /\ (j \in DOMAIN processing_jobs /\ j \in DOMAIN processing_jobs')
                => \/ processing_jobs'[j].status = processing_jobs[j].status
                   \/ <<processing_jobs[j].status, processing_jobs'[j].status>>
                          \in StatusSteps]_vars

\* C1 witness: a download handler has just answered a request for a job
\* whose record is terminal, while the record of another job is in the
\* table and its worker has stored the status processing.
C1_Witness ==
    /\ response.op = "download"
    /\ response.found
    /\ response.job.status \in TerminalStatuses
    /\ \E j \in DOMAIN processing_jobs :
          j /= response.job_id /\ processing_jobs[j].status = "processing"

\* C2 (amended): under fair scheduling every job whose record is in the
\* table eventually has a terminal status there; an exception that reaches
\* the handler of the worker function stores the status error with the
\* exception's message, and so does a failure that remove_silence_from_url
\* catches and returns.
C2_EventuallyTerminal ==
    /\ \A j \in JobIds :
          (j \in DOMAIN processing_jobs)
              ~> (j \in DOMAIN processing_jobs /\ IsTerminal(processing_jobs[j]))
    /\ [][\A j \in JobIds :
            /\ (At(j, "except") /\ worker'[j].pc = "done" /\ j \in DOMAIN processing_jobs')
                  => /\ processing_jobs'[j].status = "error"
                     /\ processing_jobs'[j].error = Text(worker[j].exc)
            /\ (At(j, "update") /\ IsType(j, "remove-silence")
                  /\ worker[j].result.status = "error"
                  /\ worker'[j].pc = "done" /\ j \in DOMAIN processing_jobs')
                  => /\ processing_jobs'[j].status = "error"
                     /\ processing_jobs'[j].error = Text(worker[j].result.message)]_vars

\* C2 witness: the worker of a job has ended with an exception and the
\* record holds the status error and the exception's message.
C2_Witness ==
    \E j \in DOMAIN processing_jobs :
        /\ At(j, "done")
        /\ processing_jobs[j].status = "error"
        /\ processing_jobs[j].error = Text("Video URL returned 404")

\* C2 as stated: whatever exception was raised at whatever stage of the
\* worker, the job ends in status error.  The exception of the thin-space
\* pass is raised inside the worker and the job may still end completed.
C2_AnyExceptionEndsInError ==
    \A j \in DOMAIN processing_jobs :
        (At(j, "done") /\ "patch raised" \in events[j])
            => processing_jobs[j].status = "error"

\* C3: a submit handler inserts the record with status pending before it
\* starts the worker, and when it returns the job id the record is in the
\* table, at whatever stage the worker is.
C3_SubmitRecordExists ==
    /\ \A c \in Clients :
          client[c].pc = "start"
              => /\ client[c].job_id \in DOMAIN processing_jobs
                 /\ processing_jobs[client[c].job_id].status = "pending"
                 /\ client[c].job_id \notin DOMAIN worker
    /\ (response.op = "submit" /\ response.resp.code = 202)
          => response.job_id \in DOMAIN processing_jobs

\* C4: a terminal record holds exactly one of output_path, error and the
\* no-silence message: output_path if and only if its status is completed,
\* error if and only if it is error, message if and only if it is
\* no_silence.
C4_OneResultField ==
    \A j \in DOMAIN processing_jobs :
        LET job == processing_jobs[j]
        IN IsTerminal(job)
             => /\ ("output_path" \in DOMAIN job) <=> (job.status = "completed")
                /\ ("error" \in DOMAIN job) <=> (job.status = "error")
                /\ ("message" \in DOMAIN job) <=> (job.status = "no_silence")

\* C4 witness: the workers of two jobs have ended, one job no_silence and
\* the other completed or error.
C4_Witness ==
    \E j, k \in DOMAIN processing_jobs :
        /\ At(j, "done") /\ At(k, "done")
        /\ processing_jobs[j].status = "no_silence"
        /\ processing_jobs[k].status \in {"completed", "error"}

\* C5: a download answers with the file only when the lookup gave a record,
\* the record has the job type of the route and its status is completed; a
\* record of the other job type, or one whose status is not completed, is
\* answered with the client error 400, and an id without a record with the
\* not-found answer 404.
C5_DownloadGuards ==
    response.op = "download"
        => /\ response.resp.code = 200
                => /\ response.found
                   /\ response.job.job_type = response.route
                   /\ response.job.status = "completed"
           /\ (response.found /\ response.job.job_type /= response.route)
                => response.resp.code = 400
           /\ (response.found /\ response.job.status /= "completed")
                => response.resp.code = 400
           /\ ~response.found => response.resp = DownloadJobNotFound

\* C5 witness: a download on the route of the other job type has just been
\* answered for a job that is completed and whose output file exists.
C5_Witness ==
    /\ response.op = "download"
    /\ response.found
    /\ response.job.status = "completed"
    /\ response.job.output_path \in files
    /\ response.job.job_type /= response.route
    /\ response.resp.code = 400

\* A download request on the route of the job's own type that started after
\* a delivery of the job's output was closed has just been answered.
AnsweredAfterDelivery ==
    /\ response.op = "download"
    /\ response.after_delivery
    /\ args[response.job_id].job_type = response.route

C7_EvictedLikeUnknown ==
    /\ (response.op = "status" /\ ~response.found)
          => response.resp = StatusNotFound
    /\ \A j \in Issued :
          j \notin DOMAIN processing_jobs => j \notin Range(order)

\* C7 witness: a status query for an id whose record was evicted after its
\* worker had ended has just been answered with the not-found response.
C7_Witness ==
    /\ response.op = "status"
    /\ response.job_id \in Issued
    /\ At(response.job_id, "done")
    /\ response.job_id \notin DOMAIN processing_jobs
    /\ ~response.found
    /\ response.resp = StatusNotFound

\* C8: a silence-removal job whose detection found no silence interval
\* never enters the planner or the transcode, has no output file, and its
\* record never holds an output_path and is never completed; when its
\* worker has ended the status of the record is no_silence.
C8_NoSilenceNoOutput ==
    \A j \in DOMAIN events :
        "no silences" \in events[j]
            => /\ events[j] \cap {"plan", "transcode"} = {}
               /\ output_path(j) \notin files
               /\ j \in DOMAIN processing_jobs
                     => /\ "output_path" \notin DOMAIN processing_jobs[j]
                        /\ processing_jobs[j].status /= "completed"
                        /\ At(j, "done") => processing_jobs[j].status = "no_silence"

\* C8 witness: the worker of a job without silences has ended and the
\* record is in the table with status no_silence.
C8_Witness ==
    \E j \in DOMAIN processing_jobs :
        /\ At(j, "done")
        /\ "no silences" \in events[j]
        /\ processing_jobs[j].status = "no_silence"

\* What a sweep with the given current time is to do.  OldIds: the terminal
\* records that finished more than 900 seconds before; Excess: by how many
\* the records left by the first pass exceed 50.
OldIds(t) ==
    {j \in DOMAIN processing_jobs :
        /\ processing_jobs[j].status \in {"completed", "error", "no_silence"}
        /\ t - CompletionTime(processing_jobs[j]) > 900}

YoungTerminalIds(t) ==
    {j \in DOMAIN processing_jobs \ OldIds(t) :
        processing_jobs[j].status \in {"completed", "error", "no_silence"}}

Excess(t) == Cardinality(DOMAIN processing_jobs \ OldIds(t)) - 50

Min(a, b) == IF a <= b THEN a ELSE b

SweepOf(c) ==
    cleanup_old_jobs(processing_jobs, order, files, client[c].current_time)

C10_SecondPassOldestFirst ==
    [][\A c \in Clients :
         CleanupSweep(c)
            => LET t == client[c].current_time
                   second == SweepOf(c).second
                   picked == Range(second)
                   CT(j) == CompletionTime(processing_jobs[j])
               IN /\ Len(second) = Cardinality(picked)
                  /\ picked \subseteq YoungTerminalIds(t)
                  /\ Cardinality(picked)
                        = IF Excess(t) > 0
                          THEN Min(Excess(t), Cardinality(YoungTerminalIds(t)))
                          ELSE 0
                  /\ \A a, b \in 1..Len(second) :
                        a < b => CT(second[a]) <= CT(second[b])
                  /\ \A p \in picked, q \in YoungTerminalIds(t) \ picked :
                        CT(p) <= CT(q)
                  /\ DOMAIN processing_jobs'
                        = (DOMAIN processing_jobs \ OldIds(t)) \ picked
                  /\ \/ Cardinality(DOMAIN processing_jobs') <= 50
                     \/ \A j \in DOMAIN processing_jobs' :
                           ~IsTerminal(processing_jobs'[j])]_vars

\* C10 witness: of a loaded table of 52 records, the first pass has removed
\* the one old record and the second pass the older of the terminal records
\* left; 50 records stay, among them terminal records that are not older
\* than the removed one.
C10_Witness ==
    /\ \E c \in Clients : client[c].pc = "lookup"
    /\ now = 901
    /\ Cardinality(DOMAIN processing_jobs) = 50
    /\ LoadedId(4) \notin DOMAIN processing_jobs
    /\ LoadedId(2) \notin DOMAIN processing_jobs
    /\ {LoadedId(1), LoadedId(3)} \subseteq DOMAIN processing_jobs
    /\ processing_jobs[LoadedId(1)].completed_at = 2
    /\ processing_jobs[LoadedId(3)].completed_at = 1

\* The output files that the given records name.
NamedOutputs(jobs, ids) ==
    {jobs[j].output_path : j \in {k \in ids : "output_path" \in DOMAIN jobs[k]}}

C12_StatusSnapshot ==
    (response.op = "status" /\ response.resp.code = 200)
        => LET r == response.resp
           IN /\ ("download_url" \in DOMAIN r) <=> (r.status = "completed")
              /\ ("error" \in DOMAIN r) <=> (r.status = "error")
              /\ ("completed_at" \in DOMAIN r)
                    <=> (r.status \in TerminalStatuses
                           /\ ~(r.status = "no_silence"
                                  /\ response.route = "burn-captions"))
              /\ response.route = "remove-silence"
                    => (("message" \in DOMAIN r) <=> (r.status = "no_silence"))

\* The messages of the exceptions with which the cue generators refuse a
\* word list.
ValidationErrors == {"TypeError", "ValueError", "AttributeError"}

\* C13: a submission whose input fails validation is answered in the submit
\* call and creates no record, and no record holds the status error because
\* the cue generator refused the word list.
C13_ValidationRejectedAtSubmit ==
    /\ (response.op = "submit" /\ response.resp.code = 400)
          => response.job_id \notin DOMAIN processing_jobs
    /\ \A j \in DOMAIN processing_jobs :
          processing_jobs[j].status = "error"
              => processing_jobs[j].error.text \notin ValidationErrors

\* The step in which the worker of job j stores the outcome of an engine
\* run that exited with a non-zero code.
BurnEngineFailed(j) ==
    /\ At(j, "update") /\ IsType(j, "burn-captions")
    /\ worker[j].returncode /= 0
    /\ worker'[j].pc = "done"

SilenceEngineFailed(j) ==
    /\ At(j, "update") /\ IsType(j, "remove-silence")
    /\ worker[j].result.status = "error"
    /\ "error" \in DOMAIN worker[j].result
    /\ worker'[j].pc = "done"

ScratchFiles(j) == {input_path(j), srt_path(j), output_path(j)}

\* C15: once the worker of a job has ended and the job's output has been
\* downloaded or its record has been evicted, none of the job's scratch
\* files (input, cue file, output) is on the disk.
C15_ScratchReclaimed ==
    \A j \in Issued :
        (/\ At(j, "done")
         /\ \/ j \notin DOMAIN processing_jobs
            \/ "delivered" \in events[j])
            => ScratchFiles(j) \cap files = {}

\* The seconds of the video that lie in one of the intervals, as the set of
\* the whole seconds that begin in it.
Cells(intervals) ==
    UNION {iv.start..(iv.end - 1) : iv \in Range(intervals)}

SilenceStored(j) ==
    /\ At(j, "update") /\ IsType(j, "remove-silence")
    /\ worker'[j].pc = "done"
    /\ j \in DOMAIN processing_jobs'

\* The silences the worker detected cover the whole video.
AllSilence(j) ==
    /\ worker[j].silences /= <<>>
    /\ Cells(worker[j].silences) = 0..(worker[j].video_duration - 1)

\* C17: when the detected silences cover the whole video the planner keeps
\* no segment and returns no filter, the call returns an error result
\* instead of raising, and the job ends in status error with the message
\* of the failed planning; a job without any silence ends in no_silence.
C17_AllSilenceIsError ==
    [][\A j \in JobIds :
          SilenceStored(j) =>
             /\ AllSilence(j) =>
                   /\ KeepSegments(worker[j].silences, worker[j].video_duration) = <<>>
                   /\ worker[j].result =
                         [status |-> "error", message |-> "Could not create filter"]
                   /\ "transcode" \notin events[j]
                   /\ processing_jobs'[j].status = "error"
                   /\ processing_jobs'[j].error = Text("Could not create filter")
             /\ "no silences" \in events[j] =>
                   processing_jobs'[j].status = "no_silence"]_vars

\* C17 witness: a job whose planner was entered and whose transcode was
\* not has ended in status error with the message of the failed planning.
C17_Witness ==
    \E j \in DOMAIN processing_jobs :
        /\ At(j, "done")
        /\ events[j] = {"plan"}
        /\ processing_jobs[j].status = "error"
        /\ processing_jobs[j].error = Text("Could not create filter")

\* The number of chunks of k words that n words make: ceil(n / k).
CeilDiv(n, k) == (n + k - 1) \div k

\* The texts of the words at the (1-based) positions from..to, as one cue
\* shows them.
TextsOf(words, from, to) == Join([i \in 1..(to - from + 1) |-> words[from + i - 1].text])

\* C18: in grouped mode over n >= 1 words with chunk size k >= 1, when the
\* generator returns it has written exactly ceil(n / k) cues, numbered
\* 1, 2, ... in the order written; cue i shows exactly the words at the
\* (0-based) positions (i-1)*k .. min(i*k, n) - 1, so the last cue shows
\* the n - (ceil(n/k) - 1)*k words that remain; the value returned is the
\* number of cues written.
C18_GroupedCues ==
    (Returned("create_srt_from_words") /\ call.outcome.raised = NONE)
        => LET words == call.arguments.words
               n == Len(words)
               k == call.arguments.words_per_line
               file == call.outcome.file
           IN /\ Len(file) = CeilDiv(n, k)
              /\ call.outcome.returned = Len(file)
              /\ \A i \in 1..Len(file) :
                    /\ file[i].index = i
                    /\ IF \A x \in 1..n : IsDict(words[x]) /\ "text" \in DOMAIN words[x]
                       THEN file[i].text =
                              Caps(TextsOf(words, (i - 1) * k + 1, Min(i * k, n)),
                                   call.arguments.all_caps)
                       ELSE Len(file[i].text) = 2 * (Min(i * k, n) - (i - 1) * k) - 1
              /\ Len(file[Len(file)].text) = 2 * (n - (CeilDiv(n, k) - 1) * k) - 1

\* C18 witness: 2 words per line over 5 words gave 3 cues, the last with
\* one word.
C18_Witness ==
    /\ Returned("create_srt_from_words")
    /\ Len(call.arguments.words) = 5
    /\ call.arguments.words_per_line = 2
    /\ call.outcome.raised = NONE
    /\ call.outcome.returned = 3
    /\ Len(call.outcome.file) = 3
    /\ Len(call.outcome.file[3].text) = 1

\* C19: a call of a cue generator, grouped or word by word, on a list with
\* a word that lacks one of start, end and text ends with an exception,
\* wherever the word stands in its chunk.
C19_IncompleteWordRejected ==
    (/\ Returned("create_srt_from_words") \/ Returned("create_word_by_word_srt")
     /\ \E x \in 1..Len(call.arguments.words) :
            LET word == call.arguments.words[x]
            IN IsDict(word) /\ {"start", "end", "text"} \ DOMAIN word /= {})
        => call.outcome.raised /= NONE

\* C20: the timestamp of a decimal number of seconds is its hours, minutes
\* and seconds in two digits each and its milliseconds in three, the part
\* below the millisecond cut off: 1.4995 gives 00:00:01,499 and 3661.2
\* gives 01:01:01,200.
C20_TimestampTruncates ==
    Returned("format_timestamp")
        => LET n == call.arguments.seconds
               whole == n \div Scale
           IN call.outcome.result =
                Stamp(whole \div 3600, (whole % 3600) \div 60, whole % 60,
                      ((n % Scale) * 1000) \div Scale)

\* The download requests that have read the output file of job j to its
\* end and are not closed yet.
Delivering(j) ==
    {c \in Clients : /\ client[c].op = "download"
                     /\ client[c].job_id = j
                     /\ client[c].pc = "close"
                     /\ client[c].delivered}

\* C21: whatever the interleaving of the download requests of a job, its
\* output file is delivered at most once: never are two requests both
\* served the file, and none is served it after a delivery was closed.
C21_DeliveredAtMostOnce ==
    \A j \in JobIds :
        Cardinality(Delivering(j))
            + (IF j \in DOMAIN events /\ "delivered" \in events[j] THEN 1 ELSE 0) <= 1

\* C22: a download request on a completed record whose file is deleted by
\* another actor ends by delivering the file or with the 'output not found'
\* response, never with a failure between the check that the file exists
\* and the reading of the file.
C22_DownloadEndsStructured ==
    response.op = "download"
        => \/ response.resp = FileResponse(TRUE)
           \/ response.resp.code \in {400, 404}

\* Thread t is inside a download or a run of the engine.
InLongCall(t) ==
    /\ AtOp(t, "work")
    /\ Current(t).what \in {"download", "download and engine", "cues and engine"}

\* C23: a worker that is inside its download or its run of the engine does
\* not hold the job-table lock, and no thread is inside a download or a
\* run of the engine while it holds the lock.
C23_NoLockInLongCall ==
    \A t \in DOMAIN thread : InLongCall(t) => lock /= t

\* C23 witness: both workers are inside a run of the engine and a request
\* thread, which started with them, has taken the lock, released it and
\* returned.
C23_Witness ==
    /\ DOMAIN thread = Threads
    /\ \A t \in WorkerThreads : InLongCall(t)
    /\ \E t \in RequestThreads : Ended(t) /\ ~thread[t].raised
    /\ lock = NONE

\* Thread t is at the entry of a with block: it requests the lock.
Requests(t) == AtOp(t, "acquire")

\* C30: the lock never causes a deadlock.  No thread requests the lock
\* while it holds it; the sweep is entered with the lock released; a thread
\* whose function has ended, by return or by exception, holds nothing; and
\* under fair scheduling every thread that requests the lock obtains it.
C30_NoDeadlock ==
    /\ [](\A t \in Threads :
            /\ Requests(t) => lock /= t
            /\ (~Ended(t) /\ Current(t).label = "sweep") => lock /= t
            /\ Ended(t) => lock /= t)
    /\ \A t \in Threads : Requests(t) ~> (lock = t)

\* C30 witness: a thread is in the sweep, under the lock, while another
\* thread requests the lock.
C30_Witness ==
    /\ DOMAIN thread = Threads
    /\ \E t, u \in Threads :
          /\ lock = t
          /\ ~Ended(t) /\ Current(t).line = 343 /\ Current(t).op = "mutate"
          /\ u /= t /\ Requests(u)

\* The records that are in the table before and after the step are the
\* same, except the record of job j.
OthersUntouched(j) ==
    \A k \in (DOMAIN processing_jobs \cap DOMAIN processing_jobs') \ {j} :
        processing_jobs'[k] = processing_jobs[k]

\* The step is a step of the worker of job j.
WorkerMoved(j) == j \in DOMAIN worker /\ worker'[j] /= worker[j]

\* The step is a step of request thread c.
RequestMoved(c) == client'[c] /= client[c]

\* The step is the sweep that request thread c runs under the lock.
Swept(c) == client[c].pc = "sweep" /\ RequestMoved(c)

C25_DiagnosticBounded ==
    \A j \in DOMAIN worker :
        At(j, "update") =>
            /\ worker[j].stderr_output <= max_stderr_size
            /\ "error" \in DOMAIN worker[j].result
                  => worker[j].result.error <= max_stderr_size

\* C26: in the caption-burn pipeline no cue shows a run of white space that
\* comes from inside the text of a word: the runs are collapsed to one
\* space before the words are chunked.
C26_WhitespaceCollapsed ==
    (Returned("process_burn_captions") /\ call.outcome.raised = NONE)
        => \A i \in 1..Len(call.outcome.file) :
              \A x \in 1..Len(call.outcome.file[i].text) :
                  call.outcome.file[i].text[x] = Collapse(call.outcome.file[i].text[x])

\* The parts of a filter graph that use the given filter.
PartsOf(parts, filter) == {k \in 1..Len(parts) : parts[k].filter = filter}

\* C27: the filter graph made for n >= 1 keep segments has exactly n video
\* trims and n audio trims; the trims labelled v(i) and a(i) take the start
\* and the end of segment i and reset the time base to zero; the
\* concatenation comes last, takes v0, a0, v1, a1, ... in this order and
\* declares n segments.
C27_FilterGraph ==
    (Returned("create_filter_complex") /\ call.outcome.result /= NONE)
        => LET parts == call.outcome.result
               segments == call.outcome.segments
               n == Len(segments)
           IN /\ n >= 1
              /\ Len(parts) = 2 * n + 1
              /\ Cardinality(PartsOf(parts, "trim")) = n
              /\ Cardinality(PartsOf(parts, "atrim")) = n
              /\ \A i \in 1..n :
                    LET video == parts[2 * i - 1]
                        audio == parts[2 * i]
                    IN /\ video.filter = "trim" /\ video.src = "0:v"
                       /\ video.label = <<"v", i - 1>>
                       /\ video.reset = "setpts=PTS-STARTPTS"
                       /\ audio.filter = "atrim" /\ audio.src = "0:a"
                       /\ audio.label = <<"a", i - 1>>
                       /\ audio.reset = "asetpts=PTS-STARTPTS"
                       /\ video.start = segments[i].start /\ video.end = segments[i].end
                       /\ audio.start = segments[i].start /\ audio.end = segments[i].end
                       /\ parts[2 * n + 1].inputs[2 * i - 1] = <<"v", i - 1>>
                       /\ parts[2 * n + 1].inputs[2 * i] = <<"a", i - 1>>
              /\ parts[2 * n + 1].filter = "concat"
              /\ Len(parts[2 * n + 1].inputs) = 2 * n
              /\ parts[2 * n + 1].n = n

\* C27 witness: a filter graph has been made for two keep segments.
C27_Witness ==
    /\ Returned("create_filter_complex")
    /\ call.outcome.result /= NONE
    /\ Len(call.outcome.segments) = 2
    /\ Len(call.outcome.result) = 5

\* Every word of the list is a dict with start, end and text.
Complete(words) ==
    \A x \in 1..Len(words) :
        IsDict(words[x]) /\ {"start", "end", "text"} \subseteq DOMAIN words[x]

\* C28: in grouped mode every cue written starts at the start of the first
\* word of its chunk and ends at the end of the last one, and its text is
\* the texts of the words of the chunk in the order of the input, one
\* space between two, in upper case when all_caps is asked for.
C28_GroupedCueContent ==
    (/\ Returned("create_srt_from_words")
     /\ call.outcome.raised = NONE
     /\ Complete(call.arguments.words))
        => LET words == call.arguments.words
               k == call.arguments.words_per_line
               file == call.outcome.file
           IN \A i \in 1..Len(file) :
                LET first == (i - 1) * k + 1
                    last == Min(i * k, Len(words))
                    m == last - first + 1
                IN /\ file[i].start = format_timestamp(Float(words[first].start))
                   /\ file[i].end = format_timestamp(Float(words[last].end))
                   /\ Len(file[i].text) = 2 * m - 1
                   /\ \A x \in 1..m :
                         file[i].text[2 * x - 1] =
                            IF call.arguments.all_caps
                            THEN Upper(words[first + x - 1].text)
                            ELSE words[first + x - 1].text
                   /\ \A x \in 1..(m - 1) : file[i].text[2 * x] = " "

\* C28 witness: a cue of three words that are not in the order of their
\* times has been written in upper case.
C28_Witness ==
    /\ Returned("create_srt_from_words")
    /\ call.outcome.raised = NONE
    /\ call.arguments.all_caps
    /\ call.arguments.words = <<Word(3), Word(1), Word(2)>>
    /\ call.outcome.file[1].text = <<"C", " ", "A", " ", "B">>

\* C29: a record leaves the table only with a terminal status; at every
\* step of the worker of a job the record of the job is in the table, before
\* and after; when the worker ends the record holds a terminal status; and
\* a record enters the table only at a submit, never by a worker.
C29_ActiveRecordsStay ==
    [][/\ \A j \in DOMAIN processing_jobs :
            j \notin DOMAIN processing_jobs'
                => processing_jobs[j].status \in TerminalStatuses
       /\ \A j \in JobIds :
            WorkerMoved(j) =>
               /\ j \in DOMAIN processing_jobs
               /\ j \in DOMAIN processing_jobs'
               /\ worker'[j].pc = "done"
                     => processing_jobs'[j].status \in TerminalStatuses
       /\ \A j \in DOMAIN processing_jobs' \ DOMAIN processing_jobs :
            j \notin DOMAIN worker]_vars

\* C29 witness: a sweep has just removed records of a table that holds
\* pending or processing records, while the worker of a job is running.
C29_Witness ==
    /\ \E c \in Clients : client[c].op \in {"status", "submit"}
                             /\ client[c].pc \in {"lookup", "respond"}
    /\ detached /= <<>> \/ Len(order) <= max_jobs
    /\ Len(order) < max_jobs + 1
    /\ \E j \in DOMAIN processing_jobs :
          processing_jobs[j].status \in {"pending", "processing"} /\ j > NJobs
    /\ \E j \in DOMAIN worker : worker[j].pc \notin {"begin", "done"}

\* A record has a completion time exactly when its status is terminal, and
\* the completion time is not earlier than the creation time.
TimesAgree(job) ==
    /\ "completed_at" \in DOMAIN job <=> job.status \in TerminalStatuses
    /\ "completed_at" \in DOMAIN job => job.completed_at >= job.created_at

\* C31: in every reachable state a record of the table carries completed_at
\* if and only if its status is terminal, and completed_at is not earlier
\* than created_at; completed_at is written once, by the step of the record's
\* own worker that sets the terminal status under the lock and ends the
\* worker, with the time of that step; created_at and job_type of a record
\* never change while the record is in the table.
C31_CompletionTime ==
    /\ [](\A j \in DOMAIN processing_jobs : TimesAgree(processing_jobs[j]))
    /\ [][\A j \in DOMAIN processing_jobs \cap DOMAIN processing_jobs' :
            LET old == processing_jobs[j]
                new == processing_jobs'[j]
            IN /\ new.created_at = old.created_at
               /\ new.job_type = old.job_type
               /\ "completed_at" \in DOMAIN old
                     => /\ "completed_at" \in DOMAIN new
                        /\ new.completed_at = old.completed_at
                        /\ new.status = old.status
               /\ "completed_at" \in DOMAIN new \ DOMAIN old
                     => /\ old.status \notin TerminalStatuses
                        /\ new.status \in TerminalStatuses
                        /\ new.completed_at = now
                        /\ WorkerMoved(j)
                        /\ worker'[j].pc = "done"]_vars

\* A job that finished later than it was created, its record still in the
\* table with both times, next to a record that has no completion time yet.
C31_Witness ==
    /\ \E j \in DOMAIN processing_jobs :
          /\ processing_jobs[j].status \in TerminalStatuses
          /\ "completed_at" \in DOMAIN processing_jobs[j]
          /\ processing_jobs[j].completed_at > processing_jobs[j].created_at
          /\ j \in DOMAIN worker /\ worker[j].pc = "done"
    /\ \E k \in DOMAIN processing_jobs :
          /\ processing_jobs[k].status = "processing"
          /\ "completed_at" \notin DOMAIN processing_jobs[k]

====
